---- MODULE Spec2Model ----
(***************************************************************************)
(* Entity-to-GPU-instance synchronisation of the `graphics` crate:         *)
(* GraphicsState::setup_entities (full rebuild) and                        *)
(* GraphicsState::replace_instance_entries (in-place patch with fallback), *)
(* src/src/graphics.rs, and the frame that draws them: State::redraw,      *)
(* src/src/window.rs, with GraphicsState::render and setup_render_pass.    *)
(*                                                                         *)
(* Conventions.  Rust indices are 0-based, TLA+ sequences 1-based: mesh i  *)
(* is meshes[i + 1], slot s of a buffer is buf[s + 1].  Option<usize> is a *)
(* sequence of length 0 (None) or 1 (Some).  Opacity is an integer number  *)
(* of hundredths, so the literal 0.99 is 99.  A buffer is the sequence of  *)
(* the serialized records it holds.                                        *)
(***************************************************************************)
EXTENDS Integers, Sequences, FiniteSets, TLC

VARIABLES
    meshes,                     \* scene.meshes
    entities,                   \* scene.entities
    gaussians,                  \* scene.gaussians
    instance_buf,               \* GraphicsState.instance_buf
    instance_buf_transparent,   \* GraphicsState.instance_buf_transparent
    instance_buf_gauss,         \* GraphicsState.instance_buf_gauss
    mesh_mappings,              \* GraphicsState.mesh_mappings
    mesh_mappings_transparent,  \* GraphicsState.mesh_mappings_transparent
    panicked,                   \* the thread has panicked
    edits,                      \* history: number of application mutations so far
    stable,                     \* history: registry order, mesh references and
                                \* mesh table unchanged since the last rebuild
    last_op,                    \* history: what the last step did
    frame,                      \* history: the events of the last State::redraw
                                \* or State::device_event
    vertex_buf,                 \* GraphicsState.vertex_buf
    index_buf,                  \* GraphicsState.index_buf
    camera,                     \* scene.camera
    camera_buf,                 \* GraphicsState.camera_buf
    cam_basis_buf,              \* GraphicsState.cam_basis_buf
    lighting,                   \* scene.lighting
    lighting_buf,               \* GraphicsState.lighting_buf
    control_scheme,             \* scene.input_settings.control_scheme
    mouse_in_gui,               \* GuiState.mouse_in_gui
    inputs_commanded,           \* GraphicsState.inputs_commanded
    dt,                         \* State.dt, in milliseconds
    entity_update,              \* an EntityUpdate the application accumulates
    pushed                      \* history: the classes and ids pushed into it

vars == <<meshes, entities, gaussians, instance_buf, instance_buf_transparent,
          instance_buf_gauss, mesh_mappings, mesh_mappings_transparent,
          panicked, edits, stable, last_op, frame,
          vertex_buf, index_buf, camera, camera_buf, cam_basis_buf, lighting,
          lighting_buf, control_scheme, mouse_in_gui, inputs_commanded, dt,
          entity_update, pushed>>

----------------------------------------------------------------------------
(* Bounds and input domains *)

\* The application mutates registries of at most MaxEntities entities, and
\* performs at most MaxEdits mutations in a run.
MaxEntities == 2

MaxEdits == 2

MeshA == [vertices |-> 3, indices |-> 3]
MeshB == [vertices |-> 4, indices |-> 6]
MeshC == [vertices |-> 5, indices |-> 9]

\* Mesh tables the application switches between.
MeshTables == {<<MeshA>>, <<MeshA, MeshB>>}

\* Mesh indices the application assigns; 1 refers to no mesh of <<MeshA>>.
MeshRefs == {0, 1}

\* Opacities the application assigns: 0.50 and the threshold 0.99, in
\* hundredths (Entity::new sets 1.0, which is 100).
Opacities == {50, 99}

Colors == {0, 1}

EntityIds == {0, 1}

----------------------------------------------------------------------------
(* Data types *)

None == << >>

Some(x) == <<x>>

IsSome(o) == Len(o) = 1

Unwrap(o) == o[1]

\* Entity as the application constructs it: no slot, opaque bookkeeping.
NewEntity(tag, mesh, opacity, color) ==
    [id |-> tag.id, class |-> tag.class, mesh |-> mesh, color |-> color,
     opacity |-> opacity, buf_i |-> None, buf_is_transparent |-> FALSE]

\* impl From<&Entity> for Instance
EntityToInstance(ent) ==
    [color |-> ent.color, opacity |-> ent.opacity]

\* Instance::to_bytes: the colour vector is (r, g, b, opacity)
InstanceToBytes(instance) ==
    <<instance.color, instance.opacity>>

\* Gaussian::to_instance followed by GaussianInstance::to_bytes
GaussToBytes(gauss) ==
    <<gauss, 0>>

EU_None == [kind |-> "None", v |-> << >>, range |-> <<0, 0>>]
EU_All == [kind |-> "All", v |-> << >>, range |-> <<0, 0>>]
EU_Classes(v) == [kind |-> "Classes", v |-> v, range |-> <<0, 0>>]
EU_Ids(v) == [kind |-> "Ids", v |-> v, range |-> <<0, 0>>]
EU_Indexes(start, end) == [kind |-> "Indexes", v |-> << >>, range |-> <<start, end>>]

Range(s) == {s[k] : k \in DOMAIN s}

----------------------------------------------------------------------------
(* GraphicsState::setup_entities *)

\* Variants of the loop body with one plausible slip each.
PlaceIn(acc, k, transparent, slot) ==
    LET instance == EntityToInstance(acc.entities[k]) IN
    IF transparent
    THEN [acc EXCEPT
            !.instances_transparent = Append(@, instance),
            !.instance_count_this_mesh_transparent = @ + 1,
            !.entities[k].buf_i = slot,
            !.entities[k].buf_is_transparent = TRUE,
            !.i_transparent = @ + 1]
    ELSE [acc EXCEPT
            !.instances = Append(@, instance),
            !.instance_count_this_mesh = @ + 1,
            !.entities[k].buf_i = slot,
            !.entities[k].buf_is_transparent = FALSE,
            !.i_opaque = @ + 1]

\* The transparent branch forgets to record the slot.
PlaceEntity_NoSlot(acc, k) ==
    LET t == acc.entities[k].opacity < 99 IN
    PlaceIn(acc, k, t, IF t THEN acc.entities[k].buf_i ELSE Some(acc.i_opaque))

\* The threshold itself is classified transparent.
PlaceEntity_Le(acc, k) ==
    LET t == acc.entities[k].opacity <= 99 IN
    PlaceIn(acc, k, t, Some(IF t THEN acc.i_transparent ELSE acc.i_opaque))

\* The slot is read after the counter is advanced.
PlaceEntity_OffByOne(acc, k) ==
    LET t == acc.entities[k].opacity < 99 IN
    PlaceIn(acc, k, t, Some((IF t THEN acc.i_transparent ELSE acc.i_opaque) + 1))

\* One slot counter shared by both buckets.
PlaceEntity_SharedCounter(acc, k) ==
    LET t == acc.entities[k].opacity < 99 IN
    PlaceIn(acc, k, t, Some(acc.i_transparent + acc.i_opaque))

\* Body of the inner loop for the entity at registry position k (1-based):
\* classify by opacity, push the instance, record slot and bucket.
PlaceEntity(acc, k) ==
    LET entity == acc.entities[k]
        instance == EntityToInstance(entity)
    IN  IF entity.opacity < 99
        THEN [acc EXCEPT
                !.instances_transparent = Append(@, instance),
                !.instance_count_this_mesh_transparent = @ + 1,
                !.entities[k].buf_i = Some(acc.i_transparent),
                !.entities[k].buf_is_transparent = TRUE,
                !.i_transparent = @ + 1]
        ELSE [acc EXCEPT
                !.instances = Append(@, instance),
                !.instance_count_this_mesh = @ + 1,
                !.entities[k].buf_i = Some(acc.i_opaque),
                !.entities[k].buf_is_transparent = FALSE,
                !.i_opaque = @ + 1]

\* Variant: entities that already have a slot are skipped.
RECURSIVE EntityLoop_OnlyUnplaced(_, _, _)
EntityLoop_OnlyUnplaced(acc, i, k) ==
    IF k > Len(acc.entities) THEN acc
    ELSE IF acc.entities[k].mesh = i /\ ~IsSome(acc.entities[k].buf_i)
         THEN EntityLoop_OnlyUnplaced(PlaceEntity(acc, k), i, k + 1)
         ELSE EntityLoop_OnlyUnplaced(acc, i, k + 1)

\* for entity in self.scene.entities.iter_mut().filter(|e| e.mesh == i)
RECURSIVE EntityLoop(_, _, _)
EntityLoop(acc, i, k) ==
    IF k > Len(acc.entities) THEN acc
    ELSE IF acc.entities[k].mesh = i
         THEN EntityLoop(PlaceEntity(acc, k), i, k + 1)
         ELSE EntityLoop(acc, i, k + 1)

\* Variant: the transparent start is advanced by the opaque count.
MeshStep_WrongStart(st, ms, i) ==
    LET acc == EntityLoop([st EXCEPT !.instance_count_this_mesh = 0,
                                     !.instance_count_this_mesh_transparent = 0],
                          i, 1)
    IN  [acc EXCEPT
            !.mesh_mappings =
                Append(@, <<acc.vertex_start_this_mesh,
                            acc.instance_start_this_mesh,
                            acc.instance_count_this_mesh>>),
            !.mesh_mappings_transparent =
                Append(@, <<acc.vertex_start_this_mesh,
                            acc.instance_start_this_mesh_transparent,
                            acc.instance_count_this_mesh_transparent>>),
            !.vertex_start_this_mesh = @ + ms[i + 1].vertices,
            !.instance_start_this_mesh = @ + acc.instance_count_this_mesh,
            !.instance_start_this_mesh_transparent =
                @ + acc.instance_count_this_mesh]

\* Variant: the vertex offset is advanced by the index count.
MeshStep_IndexOffset(st, ms, i) ==
    LET acc == EntityLoop([st EXCEPT !.instance_count_this_mesh = 0,
                                     !.instance_count_this_mesh_transparent = 0],
                          i, 1)
    IN  [acc EXCEPT
            !.mesh_mappings =
                Append(@, <<acc.vertex_start_this_mesh,
                            acc.instance_start_this_mesh,
                            acc.instance_count_this_mesh>>),
            !.mesh_mappings_transparent =
                Append(@, <<acc.vertex_start_this_mesh,
                            acc.instance_start_this_mesh_transparent,
                            acc.instance_count_this_mesh_transparent>>),
            !.vertex_start_this_mesh = @ + ms[i + 1].indices,
            !.instance_start_this_mesh = @ + acc.instance_count_this_mesh,
            !.instance_start_this_mesh_transparent =
                @ + acc.instance_count_this_mesh_transparent]

\* Body of the outer loop for mesh i (0-based): place its entities, push one
\* draw range per bucket, advance the running offsets.
MeshStep(st, ms, i) ==
    LET acc == EntityLoop([st EXCEPT !.instance_count_this_mesh = 0,
                                     !.instance_count_this_mesh_transparent = 0],
                          i, 1)
    IN  [acc EXCEPT
            !.mesh_mappings =
                Append(@, <<acc.vertex_start_this_mesh,
                            acc.instance_start_this_mesh,
                            acc.instance_count_this_mesh>>),
            !.mesh_mappings_transparent =
                Append(@, <<acc.vertex_start_this_mesh,
                            acc.instance_start_this_mesh_transparent,
                            acc.instance_count_this_mesh_transparent>>),
            !.vertex_start_this_mesh = @ + ms[i + 1].vertices,
            !.instance_start_this_mesh = @ + acc.instance_count_this_mesh,
            !.instance_start_this_mesh_transparent =
                @ + acc.instance_count_this_mesh_transparent]

\* for (i, mesh) in self.scene.meshes.iter().enumerate()
RECURSIVE MeshLoop(_, _, _)
MeshLoop(st, ms, i) ==
    IF i >= Len(ms) THEN st
    ELSE MeshLoop(MeshStep(st, ms, i), ms, i + 1)

\* The locals of setup_entities before the loops.
SetupLocals(ents) ==
    [entities |-> ents,
     instances |-> << >>,
     instances_transparent |-> << >>,
     mesh_mappings |-> << >>,
     mesh_mappings_transparent |-> << >>,
     vertex_start_this_mesh |-> 0,
     instance_start_this_mesh |-> 0,
     instance_start_this_mesh_transparent |-> 0,
     instance_count_this_mesh |-> 0,
     instance_count_this_mesh_transparent |-> 0,
     i_opaque |-> 0,
     i_transparent |-> 0]

\* setup_instance_buf: a fresh buffer holding the serialized instances.
SetupInstanceBuf(instances) ==
    [k \in 1..Len(instances) |-> InstanceToBytes(instances[k])]

\* setup_instance_buf_gauss over the instances built from scene.gaussians.
SetupInstanceBufGauss_Reversed(gs) ==
    [k \in 1..Len(gs) |-> GaussToBytes(gs[Len(gs) + 1 - k])]

SetupInstanceBufGauss(gs) ==
    [k \in 1..Len(gs) |-> GaussToBytes(gs[k])]

\* The whole of setup_entities as a function of the scene.
SetupEntities(ms, ents, gs) ==
    LET st == MeshLoop(SetupLocals(ents), ms, 0)
    IN  [entities |-> st.entities,
         mesh_mappings |-> st.mesh_mappings,
         mesh_mappings_transparent |-> st.mesh_mappings_transparent,
         instance_buf |-> SetupInstanceBuf(st.instances),
         instance_buf_transparent |-> SetupInstanceBuf(st.instances_transparent),
         instance_buf_gauss |-> SetupInstanceBufGauss(gs)]

----------------------------------------------------------------------------
(* GraphicsState::replace_instance_entries *)

INSTANCE_SIZE == 120

\* &self.scene.entities[*start..*end] panics unless start <= end <= len.
SliceOk(update, ents) ==
    update.kind = "Indexes" =>
        /\ update.range[1] <= update.range[2]
        /\ update.range[2] <= Len(ents)

\* First and last registry position (1-based) of ents_to_update.
SliceFirst(update) ==
    IF update.kind = "Indexes" THEN update.range[1] + 1 ELSE 1

SliceLast(update, ents) ==
    IF update.kind = "Indexes" THEN update.range[2] ELSE Len(ents)

\* The match with the Ids arm testing the entity's class.
Selected_IdsByClass(update, ent) ==
    CASE update.kind = "Classes" -> ent.class \in Range(update.v)
      [] update.kind = "Ids" -> ent.class \in Range(update.v)
      [] OTHER -> TRUE

\* The match at the top of the loop body: FALSE where the code says continue.
Selected(update, ent) ==
    CASE update.kind = "Classes" -> ent.class \in Range(update.v)
      [] update.kind = "Ids" -> ent.id \in Range(update.v)
      [] OTHER -> TRUE

\* queue.write_buffer(buf, byte_offset, bytes) is valid iff the written
\* range lies inside the buffer.
WriteInBounds(buf, byte_offset) ==
    byte_offset + INSTANCE_SIZE <= Len(buf) * INSTANCE_SIZE

\* A write that starts at the beginning of the buffer and runs up to the end
\* of the addressed record.
WriteBuffer_FromStart(buf, byte_offset, bytes) ==
    [k \in DOMAIN buf |->
        IF k <= (byte_offset \div INSTANCE_SIZE) + 1 THEN bytes ELSE buf[k]]

WriteBuffer(buf, byte_offset, bytes) ==
    [buf EXCEPT ![(byte_offset \div INSTANCE_SIZE) + 1] = bytes]

\* The loop body with the slot itself taken as the byte offset.
PatchEntity_OffsetIsSlot(acc, ents, k) ==
    LET ent == ents[k] IN
    IF ~IsSome(ent.buf_i)
    THEN [acc EXCEPT !.needs_full_rebuild = TRUE, !.cause = "no_slot",
                     !.stopped_at = Some(k - 1)]
    ELSE
    LET slot == Unwrap(ent.buf_i)
        now_is_transparent == ent.opacity < 99
    IN  IF now_is_transparent # ent.buf_is_transparent
        THEN [acc EXCEPT !.needs_full_rebuild = TRUE, !.cause = "bucket",
                         !.stopped_at = Some(k - 1)]
        ELSE
        LET instance == EntityToInstance(ent)
            bytes == InstanceToBytes(instance)
            byte_offset == slot
            w == [index |-> k - 1, transparent |-> ent.buf_is_transparent,
                  byte_offset |-> byte_offset, bytes |-> bytes]
        IN  IF ent.buf_is_transparent
            THEN IF WriteInBounds(acc.instance_buf_transparent, byte_offset)
                 THEN [acc EXCEPT !.writes = Append(@, w),
                                  !.instance_buf_transparent =
                                      WriteBuffer(@, byte_offset, bytes)]
                 ELSE [acc EXCEPT !.writes = Append(@, w), !.panicked = TRUE]
            ELSE IF WriteInBounds(acc.instance_buf, byte_offset)
                 THEN [acc EXCEPT !.writes = Append(@, w),
                                  !.instance_buf =
                                      WriteBuffer(@, byte_offset, bytes)]
                 ELSE [acc EXCEPT !.writes = Append(@, w), !.panicked = TRUE]

\* Body of the patch loop for the entity at registry position k, once it is
\* selected: the two rebuild conditions, then the in-place write.
PatchEntity(acc, ents, k) ==
    LET ent == ents[k] IN
    IF ~IsSome(ent.buf_i)
    THEN [acc EXCEPT !.needs_full_rebuild = TRUE, !.cause = "no_slot",
                     !.stopped_at = Some(k - 1)]
    ELSE
    LET slot == Unwrap(ent.buf_i)
        now_is_transparent == ent.opacity < 99
    IN  IF now_is_transparent # ent.buf_is_transparent
        THEN [acc EXCEPT !.needs_full_rebuild = TRUE, !.cause = "bucket",
                         !.stopped_at = Some(k - 1)]
        ELSE
        LET instance == EntityToInstance(ent)
            bytes == InstanceToBytes(instance)
            byte_offset == slot * INSTANCE_SIZE
            w == [index |-> k - 1, transparent |-> ent.buf_is_transparent,
                  byte_offset |-> byte_offset, bytes |-> bytes]
        IN  IF ent.buf_is_transparent
            THEN IF WriteInBounds(acc.instance_buf_transparent, byte_offset)
                 THEN [acc EXCEPT !.writes = Append(@, w),
                                  !.instance_buf_transparent =
                                      WriteBuffer(@, byte_offset, bytes)]
                 ELSE [acc EXCEPT !.writes = Append(@, w), !.panicked = TRUE]
            ELSE IF WriteInBounds(acc.instance_buf, byte_offset)
                 THEN [acc EXCEPT !.writes = Append(@, w),
                                  !.instance_buf =
                                      WriteBuffer(@, byte_offset, bytes)]
                 ELSE [acc EXCEPT !.writes = Append(@, w), !.panicked = TRUE]

\* The patch loop without the break: it goes on after a rebuild condition.
RECURSIVE PatchLoop_NoBreak(_, _, _, _, _)
PatchLoop_NoBreak(acc, ents, update, k, last) ==
    IF k > last \/ acc.panicked THEN acc
    ELSE IF Selected(update, ents[k])
         THEN PatchLoop_NoBreak(PatchEntity(acc, ents, k), ents, update, k + 1, last)
         ELSE PatchLoop_NoBreak(acc, ents, update, k + 1, last)

\* for ent in ents_to_update, up to the first break (or panic)
RECURSIVE PatchLoop(_, _, _, _, _)
PatchLoop(acc, ents, update, k, last) ==
    IF k > last \/ acc.needs_full_rebuild \/ acc.panicked THEN acc
    ELSE IF Selected(update, ents[k])
         THEN PatchLoop(PatchEntity(acc, ents, k), ents, update, k + 1, last)
         ELSE PatchLoop(acc, ents, update, k + 1, last)

\* The locals of replace_instance_entries before the loop.
PatchLocals(buf, buf_transparent) ==
    [needs_full_rebuild |-> FALSE,
     cause |-> "none",
     stopped_at |-> None,
     writes |-> << >>,
     panicked |-> FALSE,
     instance_buf |-> buf,
     instance_buf_transparent |-> buf_transparent]

\* The loop of replace_instance_entries as a function of the state.
PatchResult(update, ents, buf, buf_transparent) ==
    PatchLoop(PatchLocals(buf, buf_transparent), ents, update,
              SliceFirst(update), SliceLast(update, ents))

----------------------------------------------------------------------------
(* Vertex, index, camera and lighting buffers *)

\* The k-th of n items of mesh i, for k = 0 .. n - 1, in order.
MeshItems(i, n) == [k \in 1..n |-> <<i, k - 1>>]

\* The loop over scene.meshes of setup_vertices_indices: every vertex of every
\* mesh, then every index of every mesh, both in mesh order.
RECURSIVE VertexData(_, _)
VertexData(ms, i) ==
    IF i >= Len(ms) THEN << >>
    ELSE MeshItems(i, ms[i + 1].vertices) \o VertexData(ms, i + 1)

RECURSIVE IndexData(_, _)
IndexData(ms, i) ==
    IF i >= Len(ms) THEN << >>
    ELSE MeshItems(i, ms[i + 1].indices) \o IndexData(ms, i + 1)

\* GraphicsState::setup_vertices_indices: two new buffers.
SetupVerticesIndices(ms) ==
    [vertex_buf |-> VertexData(ms, 0), index_buf |-> IndexData(ms, 0)]

\* Camera positions; a camera is its position.
Cameras == {1, 2}

\* Camera::to_bytes: the projection-view matrix and the position.
CameraToBytes(cam) == [proj_view |-> cam, position |-> cam]

\* CameraBasis::new(view_mat).to_bytes(); a new buffer is zeroed.
CameraBasisToBytes(cam) == [view |-> cam]

ZeroedCameraBasis == [view |-> 0]

LIGHTING_SIZE_FIXED == 16 + 4 + 4 + 8

POINT_LIGHT_SIZE == 3 * 16 + 4 * 4 + 12 + 4

\* Lighting with the point lights pl; Lighting::default has one.
Lighting(pl) == [point_lights |-> pl]

DefaultLighting == Lighting(<<0>>)

\* Lighting::to_bytes: the fixed part, which holds the number of point
\* lights, then one record per point light.
LightingToBytes(l) == [len |-> Len(l.point_lights), lights |-> l.point_lights]

\* The length in bytes of that blob.
LightingByteLen(l) == LIGHTING_SIZE_FIXED + Len(l.point_lights) * POINT_LIGHT_SIZE

\* create_buffer_init(contents: scene.lighting.to_bytes()): a buffer of the
\* size of its contents.
NewLightingBuf(l) == [size |-> LightingByteLen(l), data |-> LightingToBytes(l)]

\* InputsCommanded: a movement key held, a mouse movement not yet consumed.
NoInputs == [fwd |-> FALSE, mouse_delta |-> FALSE]

\* InputsCommanded::inputs_present
InputsPresent(inputs) == inputs.fwd \/ inputs.mouse_delta

ControlSchemes == {"None", "FreeCamera", "Fps", "Arc"}

----------------------------------------------------------------------------
(* State machine *)

Ent(id, mesh, opacity, color) ==
    NewEntity([id |-> id, class |-> id \div 2], mesh, opacity, color)

\* Entities the application pushes at run time: Entity::new sets opacity 1.0.
NewEntities ==
    {Ent(id, mesh, 100, 0) : id \in EntityIds, mesh \in MeshRefs}

\* Scenario A: 3 meshes with 2, 0 and 1 entities, all opaque.
ScenarioA ==
    [meshes |-> <<MeshA, MeshB, MeshC>>,
     entities |-> <<Ent(0, 0, 100, 0), Ent(1, 2, 100, 1), Ent(2, 0, 100, 1)>>,
     gaussians |-> << >>]

\* Scenario B: one mesh, 5 entities alternating opacity 1.0 / 0.5.
ScenarioB ==
    [meshes |-> <<MeshA>>,
     entities |-> <<Ent(0, 0, 100, 0), Ent(1, 0, 50, 0), Ent(2, 0, 100, 1),
                    Ent(3, 0, 50, 1), Ent(4, 0, 100, 0)>>,
     gaussians |-> <<7>>]

\* The scenes the application starts with.
InitScenes ==
    {ScenarioA, ScenarioB,
     [meshes |-> << >>, entities |-> << >>, gaussians |-> << >>],
     [meshes |-> << >>, entities |-> <<Ent(0, 0, 99, 0)>>, gaussians |-> <<7>>],
     [meshes |-> <<MeshA, MeshB>>, entities |-> << >>, gaussians |-> <<7, 8>>],
     [meshes |-> <<MeshA, MeshB>>, entities |-> <<Ent(0, 1, 99, 0)>>, gaussians |-> << >>],
     [meshes |-> <<MeshA, MeshB>>,
      entities |-> <<Ent(0, 1, 99, 0), Ent(1, 0, 50, 1)>>, gaussians |-> << >>],
     [meshes |-> <<MeshA, MeshB>>,
      entities |-> <<Ent(0, 1, 100, 0), Ent(0, 1, 50, 1)>>, gaussians |-> << >>],
     [meshes |-> <<MeshA>>,
      entities |-> <<Ent(0, 0, 100, 0), Ent(0, 0, 99, 1)>>, gaussians |-> <<7>>],
     [meshes |-> <<MeshA>>,
      entities |-> <<Ent(1, 1, 50, 0), Ent(0, 0, 50, 1)>>, gaussians |-> << >>]}

\* The update requests a caller passes, over a registry of n entities.
UpdateTypes(n) ==
    {EU_All, EU_Classes(<<0>>), EU_Ids(<<0>>), EU_Ids(<<1>>),
     EU_Indexes(0, n), EU_Indexes(1, n), EU_Indexes(0, n + 1)}

OpRecord(op, update, rebuilt, r) ==
    [op |-> op, update |-> update, rebuilt |-> rebuilt, cause |-> r.cause,
     stopped_at |-> r.stopped_at, writes |-> r.writes]

NoPatch == PatchLocals(<< >>, << >>)

\* GraphicsState::new: the buffers are created from the scene, then
\* setup_vertices_indices and setup_entities run.
InitWith(scene, cam, l, scheme, request) ==
    LET r == SetupEntities(scene.meshes, scene.entities, scene.gaussians) IN
    /\ meshes = scene.meshes
    /\ gaussians = scene.gaussians
    /\ entities = r.entities
    /\ instance_buf = r.instance_buf
    /\ instance_buf_transparent = r.instance_buf_transparent
    /\ instance_buf_gauss = r.instance_buf_gauss
    /\ mesh_mappings = r.mesh_mappings
    /\ mesh_mappings_transparent = r.mesh_mappings_transparent
    /\ panicked = FALSE
    /\ edits = 0
    /\ stable = TRUE
    /\ last_op = OpRecord("setup_entities", EU_None, TRUE, NoPatch)
    /\ frame = << >>
    /\ vertex_buf = SetupVerticesIndices(scene.meshes).vertex_buf
    /\ index_buf = SetupVerticesIndices(scene.meshes).index_buf
    /\ camera = cam
    /\ camera_buf = CameraToBytes(cam)
    /\ cam_basis_buf = ZeroedCameraBasis
    /\ lighting = l
    /\ lighting_buf = NewLightingBuf(l)
    /\ control_scheme = scheme
    /\ mouse_in_gui = FALSE
    /\ inputs_commanded = NoInputs
    /\ dt = 0
    /\ entity_update = request
    /\ pushed = [classes |-> {}, ids |-> {}, n |-> 0]

\* The application starts with one of the scenes, the default lighting and
\* the default control scheme.
Init ==
    \E scene \in InitScenes :
        InitWith(scene, 1, DefaultLighting, "FreeCamera", EU_None)

\* What the entity and patch operations leave alone.
Outside == <<vertex_buf, index_buf, camera, camera_buf, cam_basis_buf, lighting,
             lighting_buf, control_scheme, mouse_in_gui, inputs_commanded, dt,
             entity_update, pushed>>

Buffers == <<instance_buf, instance_buf_transparent, instance_buf_gauss,
             mesh_mappings, mesh_mappings_transparent>>

\* An application callback that changes the scene; order says whether the
\* registry order, a mesh reference or the mesh table changed.
Mutate(order) ==
    /\ panicked = FALSE
    /\ edits < MaxEdits
    /\ Len(entities) <= MaxEntities
    /\ edits' = edits + 1
    /\ stable' = (stable /\ ~order)
    /\ last_op' = OpRecord("mutate", EU_None, FALSE, NoPatch)
    /\ UNCHANGED <<Buffers, panicked, frame, Outside>>

AddEntity ==
    /\ Len(entities) < MaxEntities
    /\ \E e \in NewEntities : entities' = Append(entities, e)
    /\ Mutate(TRUE)
    /\ UNCHANGED <<meshes, gaussians>>

RemoveEntity ==
    /\ \E k \in DOMAIN entities :
         entities' = SubSeq(entities, 1, k - 1) \o SubSeq(entities, k + 1, Len(entities))
    /\ Mutate(TRUE)
    /\ UNCHANGED <<meshes, gaussians>>

SetOpacity ==
    /\ \E k \in DOMAIN entities, o \in Opacities :
         /\ o # entities[k].opacity
         /\ entities' = [entities EXCEPT ![k].opacity = o]
    /\ Mutate(FALSE)
    /\ UNCHANGED <<meshes, gaussians>>

SetColor ==
    /\ \E k \in DOMAIN entities, c \in Colors :
         /\ c # entities[k].color
         /\ entities' = [entities EXCEPT ![k].color = c]
    /\ Mutate(FALSE)
    /\ UNCHANGED <<meshes, gaussians>>

SetMesh ==
    /\ \E k \in DOMAIN entities, m \in MeshRefs :
         /\ m # entities[k].mesh
         /\ entities' = [entities EXCEPT ![k].mesh = m]
    /\ Mutate(TRUE)
    /\ UNCHANGED <<meshes, gaussians>>

SetMeshes ==
    /\ \E ms \in MeshTables : ms # meshes /\ meshes' = ms
    /\ Mutate(TRUE)
    /\ UNCHANGED <<entities, gaussians>>

\* The scene and buffers after setup_entities.
Rebuilt ==
    LET r == SetupEntities(meshes, entities, gaussians) IN
    /\ entities' = r.entities
    /\ instance_buf' = r.instance_buf
    /\ instance_buf_transparent' = r.instance_buf_transparent
    /\ instance_buf_gauss' = r.instance_buf_gauss
    /\ mesh_mappings' = r.mesh_mappings
    /\ mesh_mappings_transparent' = r.mesh_mappings_transparent
    /\ stable' = TRUE

\* process_engine_updates with the entities flag set: a full rebuild.
FullRebuild ==
    /\ panicked = FALSE
    /\ Rebuilt
    /\ last_op' = OpRecord("setup_entities", EU_None, TRUE, NoPatch)
    /\ UNCHANGED <<meshes, gaussians, panicked, edits, frame, Outside>>

\* replace_instance_entries that sets needs_full_rebuild but never calls
\* setup_entities.
ReplaceInstanceEntries_NoFallback ==
    /\ panicked = FALSE
    /\ \E update \in UpdateTypes(Len(entities)) :
         IF ~SliceOk(update, entities)
         THEN /\ panicked' = TRUE
              /\ last_op' = OpRecord("replace_instance_entries", update, FALSE, NoPatch)
              /\ UNCHANGED <<meshes, entities, gaussians, Buffers, stable, edits, frame, Outside>>
         ELSE LET r == PatchResult(update, entities, instance_buf,
                                   instance_buf_transparent) IN
              /\ last_op' = OpRecord("replace_instance_entries", update,
                                     r.needs_full_rebuild, r)
              /\ panicked' = r.panicked
              /\ IF r.panicked
                 THEN UNCHANGED <<entities, Buffers, stable>>
                 ELSE /\ instance_buf' = r.instance_buf
                      /\ instance_buf_transparent' = r.instance_buf_transparent
                      /\ UNCHANGED <<entities, instance_buf_gauss, mesh_mappings,
                                     mesh_mappings_transparent, stable>>
              /\ UNCHANGED <<meshes, gaussians, edits, frame, Outside>>

\* replace_instance_entries that also repacks the gaussians when it patches
\* in place.
ReplaceInstanceEntriesCall_PatchesGauss(update) ==
    IF ~SliceOk(update, entities)
    THEN /\ panicked' = TRUE
         /\ last_op' = OpRecord("replace_instance_entries", update, FALSE, NoPatch)
         /\ UNCHANGED <<meshes, entities, gaussians, Buffers, stable, edits, frame, Outside>>
    ELSE LET r == PatchResult(update, entities, instance_buf,
                              instance_buf_transparent) IN
         /\ last_op' = OpRecord("replace_instance_entries", update,
                                r.needs_full_rebuild, r)
         /\ panicked' = r.panicked
         /\ IF r.panicked
            THEN UNCHANGED <<entities, Buffers, stable>>
            ELSE IF r.needs_full_rebuild
            THEN Rebuilt
            ELSE /\ instance_buf' = r.instance_buf
                 /\ instance_buf_transparent' = r.instance_buf_transparent
                 /\ instance_buf_gauss' = SetupInstanceBufGauss(gaussians)
                 /\ UNCHANGED <<entities, mesh_mappings,
                                mesh_mappings_transparent, stable>>
         /\ UNCHANGED <<meshes, gaussians, edits, frame, Outside>>

\* The effect of replace_instance_entries(queue, device, update_type) for
\* one value of update_type.
ReplaceInstanceEntriesCall(update) ==
    IF ~SliceOk(update, entities)
    THEN /\ panicked' = TRUE
         /\ last_op' = OpRecord("replace_instance_entries", update, FALSE, NoPatch)
         /\ UNCHANGED <<meshes, entities, gaussians, Buffers, stable, edits, frame, Outside>>
    ELSE LET r == PatchResult(update, entities, instance_buf,
                              instance_buf_transparent) IN
         /\ last_op' = OpRecord("replace_instance_entries", update,
                                r.needs_full_rebuild, r)
         /\ panicked' = r.panicked
         /\ IF r.panicked
            THEN UNCHANGED <<entities, Buffers, stable>>
            ELSE IF r.needs_full_rebuild
            THEN Rebuilt
            ELSE /\ instance_buf' = r.instance_buf
                 /\ instance_buf_transparent' = r.instance_buf_transparent
                 /\ UNCHANGED <<entities, instance_buf_gauss, mesh_mappings,
                                mesh_mappings_transparent, stable>>
         /\ UNCHANGED <<meshes, gaussians, edits, frame, Outside>>

\* replace_instance_entries(queue, device, update_type)
ReplaceInstanceEntries ==
    /\ panicked = FALSE
    /\ \E update \in UpdateTypes(Len(entities)) : ReplaceInstanceEntriesCall(update)

Next ==
    \/ AddEntity
    \/ RemoveEntity
    \/ SetOpacity
    \/ SetColor
    \/ SetMesh
    \/ SetMeshes
    \/ FullRebuild
    \/ ReplaceInstanceEntries

Spec == Init /\ [][Next]_vars

----------------------------------------------------------------------------
(* The entity part of process_engine_updates, taking an EntityUpdate *)

\* The requests an application hands back in EngineUpdates::entities.
UpdateRequests(n) == UpdateTypes(n) \cup {EU_None}

\* The dispatch that hands every request, All included, to the patch.
ProcessEntityUpdate_AllPatches ==
    /\ panicked = FALSE
    /\ \E update \in UpdateRequests(Len(entities)) :
         IF update.kind = "None"
         THEN /\ last_op' = OpRecord("process_engine_updates", update, FALSE, NoPatch)
              /\ UNCHANGED <<meshes, entities, gaussians, Buffers, panicked,
                             stable, edits, frame, Outside>>
         ELSE ReplaceInstanceEntriesCall(update)

\* Dispatch on the request: None does nothing, All rebuilds, the others
\* patch in place.
ProcessEntityUpdate ==
    /\ panicked = FALSE
    /\ \E update \in UpdateRequests(Len(entities)) :
         CASE update.kind = "None" ->
                /\ last_op' = OpRecord("process_engine_updates", update, FALSE, NoPatch)
                /\ UNCHANGED <<meshes, entities, gaussians, Buffers, panicked,
                               stable, edits, frame, Outside>>
           [] update.kind = "All" ->
                /\ Rebuilt
                /\ last_op' = OpRecord("setup_entities", update, TRUE, NoPatch)
                /\ UNCHANGED <<meshes, gaussians, panicked, edits, frame, Outside>>
           [] OTHER -> ReplaceInstanceEntriesCall(update)

NextUpdates ==
    \/ AddEntity
    \/ RemoveEntity
    \/ SetOpacity
    \/ SetColor
    \/ SetMesh
    \/ SetMeshes
    \/ ProcessEntityUpdate

SpecUpdates == Init /\ [][NextUpdates]_vars

----------------------------------------------------------------------------
(* Vocabulary of the properties *)

\* The state is the one a full rebuild has just left.
AfterRebuild == last_op.rebuilt

\* The entity's mesh index refers to a mesh of the table.
HasMesh(ent) == ent.mesh < Len(meshes)

\* The instance array and draw-range table of a bucket (TRUE: transparent).
BucketBuf(t) == IF t THEN instance_buf_transparent ELSE instance_buf

BucketMap(t) == IF t THEN mesh_mappings_transparent ELSE mesh_mappings

\* The bucket the opacity rule classifies an entity into.
ClassifiedTransparent(ent) == ~(ent.opacity >= 99)

RECURSIVE SumCounts(_)
SumCounts(mm) ==
    IF mm = << >> THEN 0 ELSE mm[1][3] + SumCounts(Tail(mm))

RECURSIVE SumVertices(_, _)
SumVertices(ms, n) ==
    IF n = 0 THEN 0 ELSE ms[n].vertices + SumVertices(ms, n - 1)

\* Slots of draw range r.
InRange(r, slot) == r[2] <= slot /\ slot < r[2] + r[3]

----------------------------------------------------------------------------
(* C1 *)

----------------------------------------------------------------------------
(* C2 *)

----------------------------------------------------------------------------
(* C3 *)

\* The (slot, bucket) pair of the entity at position k addresses the record
\* derived from that entity.
AddressesOwnRecord(k) ==
    LET ent == entities[k]
        buf == BucketBuf(ent.buf_is_transparent)
    IN  /\ IsSome(ent.buf_i)
        /\ Unwrap(ent.buf_i) < Len(buf)
        /\ buf[Unwrap(ent.buf_i) + 1] = InstanceToBytes(EntityToInstance(ent))

\* Every record of both bucket arrays lies in exactly one mesh's draw range.
RangesCoverOnce ==
    \A t \in BOOLEAN : \A slot \in 0..(Len(BucketBuf(t)) - 1) :
        Cardinality({i \in DOMAIN BucketMap(t) : InRange(BucketMap(t)[i], slot)}) = 1

----------------------------------------------------------------------------
(* C4 *)

\* C4: after every full rebuild, in each bucket's draw-range table the
\* instance_start values are non-decreasing and contiguous in mesh-table
\* order, the first is 0, and the last start plus count is the number of
\* records of the bucket's instance array.
C4_Contiguity ==
    AfterRebuild =>
        \A t \in BOOLEAN :
            LET mm == BucketMap(t) IN
            /\ mm # << >> => mm[1][2] = 0
            /\ \A i \in 1..(Len(mm) - 1) :
                 /\ mm[i][2] <= mm[i + 1][2]
                 /\ mm[i + 1][2] = mm[i][2] + mm[i][3]
            /\ mm # << >> => mm[Len(mm)][2] + mm[Len(mm)][3] = Len(BucketBuf(t))

C4_Witness ==
    /\ AfterRebuild
    /\ Len(mesh_mappings_transparent) >= 2
    /\ mesh_mappings_transparent[2][2] > 0
    /\ mesh_mappings[1][3] > 0

----------------------------------------------------------------------------
(* C5 *)

\* Entity j precedes entity k in (mesh index, registry position) order.
Precedes(j, k) ==
    \/ entities[j].mesh < entities[k].mesh
    \/ entities[j].mesh = entities[k].mesh /\ j < k

\* The registry is the one of scenario B.
IsScenarioB ==
    /\ Len(meshes) = 1
    /\ Len(entities) = 5
    /\ \A k \in DOMAIN entities :
         /\ entities[k].mesh = 0
         /\ entities[k].opacity = (IF k % 2 = 1 THEN 100 ELSE 50)

\* C5: the slot a full rebuild assigns to an entity is the number of
\* entities of the same bucket that precede it in (mesh index, registry
\* position) order; in scenario B the opaque entities get slots 0, 1, 2 and
\* the transparent ones slots 0, 1.
C5_SlotOrder ==
    AfterRebuild =>
        /\ \A k \in DOMAIN entities :
             HasMesh(entities[k]) =>
                entities[k].buf_i =
                    Some(Cardinality({j \in DOMAIN entities :
                            /\ ClassifiedTransparent(entities[j]) =
                               ClassifiedTransparent(entities[k])
                            /\ Precedes(j, k)}))
        /\ IsScenarioB =>
             /\ [k \in 1..5 |-> entities[k].buf_i] =
                   <<Some(0), Some(0), Some(1), Some(1), Some(2)>>
             /\ [k \in 1..5 |-> entities[k].buf_is_transparent] =
                   <<FALSE, TRUE, FALSE, TRUE, FALSE>>

C5_Witness ==
    /\ AfterRebuild
    /\ IsScenarioB
    /\ Len(instance_buf) = 3
    /\ Len(instance_buf_transparent) = 2

----------------------------------------------------------------------------
(* C6 *)

\* The registry is the one of scenario A.
IsScenarioA ==
    /\ meshes = <<MeshA, MeshB, MeshC>>
    /\ [k \in DOMAIN entities |-> entities[k].mesh] = <<0, 2, 0>>
    /\ \A k \in DOMAIN entities : entities[k].opacity >= 99

\* C6: after every full rebuild both draw-range tables have one entry per
\* mesh, in mesh-table order, meshes without instances included, and entry
\* i of both carries the sum of the vertex counts of the meshes before i;
\* in scenario A the opaque table is [(0,0,2), (v1,2,0), (v2,2,1)] and
\* every transparent count is 0.
C6_OneEntryPerMesh ==
    AfterRebuild =>
        /\ Len(mesh_mappings) = Len(meshes)
        /\ Len(mesh_mappings_transparent) = Len(meshes)
        /\ \A i \in DOMAIN meshes :
             /\ mesh_mappings[i][1] = SumVertices(meshes, i - 1)
             /\ mesh_mappings_transparent[i][1] = mesh_mappings[i][1]
        /\ IsScenarioA =>
             /\ mesh_mappings =
                  <<<<0, 0, 2>>, <<MeshA.vertices, 2, 0>>,
                    <<MeshA.vertices + MeshB.vertices, 2, 1>>>>
             /\ \A i \in DOMAIN meshes : mesh_mappings_transparent[i][3] = 0

C6_Witness ==
    /\ AfterRebuild
    /\ IsScenarioA
    /\ mesh_mappings[2] = <<3, 2, 0>>

----------------------------------------------------------------------------
(* C7 *)

\* C7: a full rebuild is idempotent: running setup_entities again on the
\* state a full rebuild has left, with no mutation in between, yields the
\* same three instance arrays, the same two draw-range tables and the same
\* slot and bucket on every entity.
C7_RebuildIdempotent ==
    AfterRebuild =>
        LET again == SetupEntities(meshes, entities, gaussians) IN
        /\ again.instance_buf = instance_buf
        /\ again.instance_buf_transparent = instance_buf_transparent
        /\ again.instance_buf_gauss = instance_buf_gauss
        /\ again.mesh_mappings = mesh_mappings
        /\ again.mesh_mappings_transparent = mesh_mappings_transparent
        /\ again.entities = entities

C7_Witness ==
    /\ AfterRebuild
    /\ last_op.op = "setup_entities"
    /\ edits > 0
    /\ instance_buf \o instance_buf_transparent # << >>
    /\ \E k \in DOMAIN entities : ~HasMesh(entities[k]) /\ IsSome(entities[k].buf_i)

----------------------------------------------------------------------------
(* Vocabulary of the patch properties *)

\* Registry positions (1-based) of the entities an update request names.
Named(update, ents) ==
    {k \in SliceFirst(update)..SliceLast(update, ents) : Selected(update, ents[k])}

\* The entity's live opacity puts it in another bucket than the recorded one.
Crossed(ent) == (ent.opacity < 99) # ent.buf_is_transparent

\* The step is a call of replace_instance_entries with a well-formed request.
PatchCall ==
    /\ last_op'.op = "replace_instance_entries"
    /\ SliceOk(last_op'.update, entities)

\* The call wrote no record for the entity at position k.
NoWriteFor(op, k) ==
    \A n \in DOMAIN op.writes : op.writes[n].index # k - 1

----------------------------------------------------------------------------
(* C8 *)

\* C8: patch equivalence: with registry order, mesh references and mesh
\* table unchanged since the last rebuild, the record an in-place patch
\* writes for an entity (whose bucket is unchanged) equals the record a
\* fresh full rebuild of the same registry places at that entity's slot in
\* the same bucket.
C8_PatchEquivalence ==
    (/\ last_op.op = "replace_instance_entries"
     /\ ~last_op.rebuilt
     /\ ~panicked
     /\ stable) =>
        LET fresh == SetupEntities(meshes, entities, gaussians) IN
        \A n \in DOMAIN last_op.writes :
            LET w == last_op.writes[n]
                ent == fresh.entities[w.index + 1]
                buf == IF ent.buf_is_transparent
                       THEN fresh.instance_buf_transparent
                       ELSE fresh.instance_buf
            IN  /\ ent.buf_is_transparent = w.transparent
                /\ IsSome(ent.buf_i)
                /\ Unwrap(ent.buf_i) < Len(buf)
                /\ buf[Unwrap(ent.buf_i) + 1] = w.bytes

----------------------------------------------------------------------------
(* C9 *)

\* C9: fallback on bucket crossing: when a patch names an entity whose
\* opacity has crossed the 0.99 threshold since its bucket was recorded,
\* replace_instance_entries performs a full rebuild and writes no record of
\* that entity in place.
C9_FallbackOnCrossing ==
    [][PatchCall =>
        \A k \in Named(last_op'.update, entities) :
            (IsSome(entities[k].buf_i) /\ Crossed(entities[k])) =>
                /\ last_op'.rebuilt
                /\ NoWriteFor(last_op', k)]_vars

----------------------------------------------------------------------------
(* C10 *)

\* C10: when a patch names an entity without a recorded slot,
\* replace_instance_entries stops the patch loop at that entity (or before
\* it), writes nothing for it or for any later entity, and performs a full
\* rebuild.
C10_FallbackOnMissingSlot ==
    [][PatchCall =>
        \A k \in Named(last_op'.update, entities) :
            ~IsSome(entities[k].buf_i) =>
                /\ last_op'.rebuilt
                /\ IsSome(last_op'.stopped_at)
                /\ Unwrap(last_op'.stopped_at) <= k - 1
                /\ \A n \in DOMAIN last_op'.writes :
                     last_op'.writes[n].index < k - 1]_vars

----------------------------------------------------------------------------
(* C11 *)

\* The engine state is the one setup_entities builds from the given scene.
IsRebuildOf(ms, ents, gs) ==
    LET fresh == SetupEntities(ms, ents, gs) IN
    /\ entities' = fresh.entities
    /\ instance_buf' = fresh.instance_buf
    /\ instance_buf_transparent' = fresh.instance_buf_transparent
    /\ instance_buf_gauss' = fresh.instance_buf_gauss
    /\ mesh_mappings' = fresh.mesh_mappings
    /\ mesh_mappings_transparent' = fresh.mesh_mappings_transparent

\* C11: when the patch loop of a call hits the rebuild condition (missing
\* slot or changed bucket) at a named entity, the call ends with one full
\* rebuild of the whole registry: the instance arrays, draw-range tables and
\* bookkeeping of all entities are those setup_entities builds from the
\* current scene, and the call returns normally (no panic, no error).
C11_OneFullRebuild ==
    [][(PatchCall /\ last_op'.cause # "none") =>
          /\ last_op'.rebuilt
          /\ ~panicked'
          /\ IsRebuildOf(meshes, entities, gaussians)
          /\ meshes' = meshes /\ gaussians' = gaussians]_vars

\* A fallback happened on a registry of two entities, one of which was not
\* the failing one, and the rebuild changed the buffers.
C11_Witness ==
    /\ last_op.op = "replace_instance_entries"
    /\ last_op.cause = "bucket"
    /\ last_op.rebuilt
    /\ Len(entities) >= 2
    /\ instance_buf # << >>
    /\ instance_buf_transparent # << >>

----------------------------------------------------------------------------
(* C12 *)

\* Registry positions (0-based) the call wrote in place, in issue order.
WrittenIndexes(op) == [n \in DOMAIN op.writes |-> op.writes[n].index]

\* The 0-based positions of the set ks of 1-based positions.
ZeroBased(ks) == {k - 1 : k \in ks}

\* Every member of the set is written exactly once, and nothing else is.
WritesExactly(op, ks) ==
    /\ Range(WrittenIndexes(op)) = ZeroBased(ks)
    /\ Len(op.writes) = Cardinality(ks)

\* C12 as stated: a call either writes every named entity in place and
\* performs no rebuild, or performs a full rebuild, and a call that falls
\* back to a rebuild has issued no in-place write for any entity of the
\* change-set.
C12_AllOrNothing ==
    [][PatchCall =>
          \/ /\ ~last_op'.rebuilt
             /\ WritesExactly(last_op', Named(last_op'.update, entities))
          \/ /\ last_op'.rebuilt
             /\ last_op'.writes = << >>]_vars

\* C12 amended: a call that reaches the end of its change-set without a
\* rebuild condition writes every named entity in place, once, and performs
\* no rebuild; a call that falls back to a rebuild has written in place the
\* named entities that precede the failing one in registry order, has
\* written nothing for the failing entity or any later one, and leaves the
\* buffers, tables and bookkeeping of a full rebuild.
C12_FallbackDiscardsWrites ==
    [][PatchCall =>
          LET named == Named(last_op'.update, entities) IN
          /\ (~last_op'.rebuilt /\ ~panicked') =>
                WritesExactly(last_op', named)
          /\ last_op'.rebuilt =>
                /\ IsSome(last_op'.stopped_at)
                /\ Unwrap(last_op'.stopped_at) + 1 \in named
                /\ WritesExactly(last_op',
                        {k \in named : k - 1 < Unwrap(last_op'.stopped_at)})
                /\ IsRebuildOf(meshes, entities, gaussians)]_vars

\* A fallback happened after the call had written an earlier named entity.
C12_Witness ==
    /\ last_op.op = "replace_instance_entries"
    /\ last_op.rebuilt
    /\ last_op.writes # << >>
    /\ last_op.stopped_at = Some(1)

----------------------------------------------------------------------------
(* C13 *)

\* The step is a call of replace_instance_entries that patched in place: it
\* reached the end of its change-set, rebuilt nothing and did not panic.
SuccessfulPatch ==
    /\ PatchCall
    /\ ~last_op'.rebuilt
    /\ ~panicked'

\* No write after the n-th one of the call targets the same bytes.
LastWriteThere(op, n) ==
    \A m \in DOMAIN op.writes :
        m > n => \/ op.writes[m].transparent # op.writes[n].transparent
                 \/ op.writes[m].byte_offset # op.writes[n].byte_offset

\* C13: a successful in-place patch issues exactly one buffer write per named
\* entity and none for other entities; each write carries the record of the
\* live entity and targets byte offset slot * INSTANCE_SIZE of the
\* transparent buffer if the recorded bucket is transparent, else of the
\* opaque buffer, where the record then stands. A patch by id that names one
\* entity issues exactly one write and no rebuild.
C13_OneWritePerNamed ==
    [][SuccessfulPatch =>
          LET op == last_op'
              named == Named(op.update, entities)
          IN  /\ WritesExactly(op, named)
              /\ \A n \in DOMAIN op.writes :
                   LET w == op.writes[n]
                       ent == entities[w.index + 1]
                       target == IF ent.buf_is_transparent
                                 THEN instance_buf_transparent'
                                 ELSE instance_buf'
                   IN  /\ IsSome(ent.buf_i)
                       /\ w.bytes = <<ent.color, ent.opacity>>
                       /\ w.byte_offset = Unwrap(ent.buf_i) * INSTANCE_SIZE
                       /\ w.transparent = ent.buf_is_transparent
                       /\ LastWriteThere(op, n) =>
                             target[Unwrap(ent.buf_i) + 1] = w.bytes
              /\ (op.update.kind = "Ids" /\ Cardinality(named) = 1) =>
                    Len(op.writes) = 1]_vars

\* Scenario C: after an attribute edit, a patch by id named one of two
\* entities, wrote it once and rebuilt nothing.
C13_Witness ==
    /\ last_op.op = "replace_instance_entries"
    /\ last_op.update.kind = "Ids"
    /\ ~last_op.rebuilt
    /\ ~panicked
    /\ edits >= 1
    /\ Len(entities) = 2
    /\ Len(last_op.writes) = 1
    /\ LET w == last_op.writes[1] IN
         BucketBuf(w.transparent)[(w.byte_offset \div INSTANCE_SIZE) + 1] = w.bytes

----------------------------------------------------------------------------
(* C14 *)

\* Some entity named by the request records slot s of bucket t.
SlotOfNamed(update, ents, t, s) ==
    \E k \in Named(update, ents) :
        /\ ents[k].buf_is_transparent = t
        /\ ents[k].buf_i = Some(s)

\* C14: a successful in-place patch leaves unchanged the length of both
\* instance buffers, the number of entities, both draw-range tables, the slot
\* and bucket bookkeeping of every entity, and the record of every slot that
\* no named entity records as its own.
C14_PatchFrame ==
    [][SuccessfulPatch =>
          /\ Len(instance_buf') = Len(instance_buf)
          /\ Len(instance_buf_transparent') = Len(instance_buf_transparent)
          /\ Len(entities') = Len(entities)
          /\ mesh_mappings' = mesh_mappings
          /\ mesh_mappings_transparent' = mesh_mappings_transparent
          /\ \A k \in DOMAIN entities :
               /\ entities'[k].buf_i = entities[k].buf_i
               /\ entities'[k].buf_is_transparent = entities[k].buf_is_transparent
          /\ \A s \in 0..(Len(instance_buf) - 1) :
               ~SlotOfNamed(last_op'.update, entities, FALSE, s) =>
                   instance_buf'[s + 1] = instance_buf[s + 1]
          /\ \A s \in 0..(Len(instance_buf_transparent) - 1) :
               ~SlotOfNamed(last_op'.update, entities, TRUE, s) =>
                   instance_buf_transparent'[s + 1] =
                       instance_buf_transparent[s + 1]]_vars

\* A successful patch wrote a record and left alone the record of an entity
\* it did not name, although that record is out of date.
C14_Witness ==
    /\ last_op.op = "replace_instance_entries"
    /\ ~last_op.rebuilt
    /\ ~panicked
    /\ last_op.writes # << >>
    /\ \E j \in DOMAIN entities :
         /\ NoWriteFor(last_op, j)
         /\ IsSome(entities[j].buf_i)
         /\ Unwrap(entities[j].buf_i) < Len(BucketBuf(entities[j].buf_is_transparent))
         /\ ~SlotOfNamed(last_op.update, entities, entities[j].buf_is_transparent,
                         Unwrap(entities[j].buf_i))
         /\ BucketBuf(entities[j].buf_is_transparent)[Unwrap(entities[j].buf_i) + 1]
                # <<entities[j].color, entities[j].opacity>>

----------------------------------------------------------------------------
(* C15 *)

\* The change-set of a request by id, by class or by index range, as
\* registry positions (1-based).
ChangeSet(update, ents) ==
    CASE update.kind = "Ids" ->
            {k \in DOMAIN ents : \E n \in DOMAIN update.v : update.v[n] = ents[k].id}
      [] update.kind = "Classes" ->
            {k \in DOMAIN ents : \E n \in DOMAIN update.v : update.v[n] = ents[k].class}
      [] update.kind = "Indexes" ->
            {k \in DOMAIN ents : update.range[1] <= k - 1 /\ k - 1 < update.range[2]}
      [] OTHER -> {}

\* The entity lacks a slot or its live bucket differs from the recorded one.
RebuildCondition(ent) == ~IsSome(ent.buf_i) \/ Crossed(ent)

\* C15: the change-set of a patch is the entities whose id is in v for
\* Ids(v), whose class is in v for Classes(v), and at positions
\* start <= i < end for Indexes((start, end)); only its members are written
\* or checked, so a rebuild happens only for a member and a stale or missing
\* slot on an entity outside it triggers none.
C15_ChangeSet ==
    [][(PatchCall /\ last_op'.update.kind \in {"Ids", "Classes", "Indexes"}) =>
          LET op == last_op'
              cs == ChangeSet(op.update, entities)
          IN  /\ Range(WrittenIndexes(op)) \subseteq ZeroBased(cs)
              /\ op.rebuilt =>
                    /\ Unwrap(op.stopped_at) + 1 \in cs
                    /\ RebuildCondition(entities[Unwrap(op.stopped_at) + 1])
              /\ (\A k \in cs : ~RebuildCondition(entities[k])) => ~op.rebuilt
              /\ (~op.rebuilt /\ ~panicked') => WritesExactly(op, cs)]_vars

\* A patch by id, class or range wrote its change-set and did not rebuild
\* although an entity outside the change-set has a missing or stale slot.
C15_Witness ==
    /\ last_op.op = "replace_instance_entries"
    /\ last_op.update.kind \in {"Ids", "Classes", "Indexes"}
    /\ ~last_op.rebuilt
    /\ ~panicked
    /\ last_op.writes # << >>
    /\ \E j \in DOMAIN entities :
         /\ j \notin ChangeSet(last_op.update, entities)
         /\ RebuildCondition(entities[j])

----------------------------------------------------------------------------
(* C16 *)

\* The step handles an update request.
UpdateStep == last_op'.op # "mutate"

----------------------------------------------------------------------------
(* State::redraw: handlers, process_engine_updates, GraphicsState::render *)

\* EngineUpdates: one flag per concern.
EngineUpdates(m, e, c, l) ==
    [meshes |-> m, entities |-> e, camera |-> c, lighting |-> l]

NoUpdates == EngineUpdates(FALSE, FALSE, FALSE, FALSE)

\* An event of a frame: a handler call with the flags it returned, a step of
\* process_engine_updates, a command recorded in the encoder or render pass,
\* or a queue or surface operation.
Event(name) ==
    [ev |-> name, updates |-> NoUpdates, pass |-> "", mesh |-> 0,
     indices |-> <<0, 0>>, base_vertex |-> 0, instances |-> <<0, 0>>,
     dt |-> 0]

HandlerEvent(name, updates) == [Event(name) EXCEPT !.updates = updates]

\* An event that carries the frame time it was called with.
Timed(e, t) == [e EXCEPT !.dt = t]

\* rpass.draw_indexed(indices, base_vertex, instances) of a mesh pipeline.
DrawIndexed(pass, i, first_index, end_index, base_vertex, first_inst, end_inst) ==
    [Event("draw_indexed") EXCEPT !.pass = pass, !.mesh = i,
        !.indices = <<first_index, end_index>>, !.base_vertex = base_vertex,
        !.instances = <<first_inst, end_inst>>]

\* rpass.draw(0..6, 0..n) of the gaussian pipeline.
DrawGauss(n) ==
    [Event("draw") EXCEPT !.pass = "gauss", !.indices = <<0, 6>>,
        !.instances = <<0, n>>]

\* The engine state during a redraw, as a record.
EngineState ==
    [meshes |-> meshes, entities |-> entities, gaussians |-> gaussians,
     instance_buf |-> instance_buf,
     instance_buf_transparent |-> instance_buf_transparent,
     instance_buf_gauss |-> instance_buf_gauss,
     mesh_mappings |-> mesh_mappings,
     mesh_mappings_transparent |-> mesh_mappings_transparent,
     panicked |-> FALSE, edits |-> edits, frame |-> << >>,
     vertex_buf |-> vertex_buf, index_buf |-> index_buf,
     camera |-> camera, camera_buf |-> camera_buf,
     cam_basis_buf |-> cam_basis_buf,
     lighting |-> lighting, lighting_buf |-> lighting_buf,
     control_scheme |-> control_scheme, mouse_in_gui |-> mouse_in_gui,
     inputs_commanded |-> inputs_commanded, dt |-> dt]

\* Nothing happens after a panic.
Log(st, e) == IF st.panicked THEN st ELSE [st EXCEPT !.frame = Append(@, e)]

\* The engine state with the arrays, tables and bookkeeping r that
\* setup_entities built.
WithSetup(st, r) ==
    [st EXCEPT
        !.entities = r.entities,
        !.instance_buf = r.instance_buf,
        !.instance_buf_transparent = r.instance_buf_transparent,
        !.instance_buf_gauss = r.instance_buf_gauss,
        !.mesh_mappings = r.mesh_mappings,
        !.mesh_mappings_transparent = r.mesh_mappings_transparent]

\* setup_entities on the engine state.
DoSetupEntities(st) ==
    WithSetup(Log(st, Event("setup_entities")),
              SetupEntities(st.meshes, st.entities, st.gaussians))

\* setup_vertices_indices on the engine state.
DoSetupVerticesIndices(st) ==
    [Log(st, Event("setup_vertices_indices")) EXCEPT
        !.vertex_buf = SetupVerticesIndices(st.meshes).vertex_buf,
        !.index_buf = SetupVerticesIndices(st.meshes).index_buf]

\* GraphicsState::update_camera: the camera buffer, and with gaussians in
\* the scene the camera basis buffer.
UpdateCamera(st) ==
    [Log(st, Event("update_camera")) EXCEPT
        !.camera_buf = CameraToBytes(st.camera),
        !.cam_basis_buf = IF st.gaussians # << >>
                          THEN CameraBasisToBytes(st.camera) ELSE @]

\* queue.write_buffer(lighting_buf, 0, bytes): the blob replaces the start of
\* the buffer; the records behind it stay.
WriteLighting(buf, l) ==
    [buf EXCEPT !.data = [len |-> Len(l.point_lights),
                          lights |-> l.point_lights \o
                                     SubSeq(buf.data.lights,
                                            Len(l.point_lights) + 1,
                                            Len(buf.data.lights))]]

\* GraphicsState::update_lighting: a write past the end of the buffer is a
\* validation error, which panics.
UpdateLighting(st) ==
    IF LightingByteLen(st.lighting) > st.lighting_buf.size
    THEN [Log(st, Event("update_lighting")) EXCEPT !.panicked = TRUE]
    ELSE [Log(st, Event("update_lighting")) EXCEPT
            !.lighting_buf = WriteLighting(@, st.lighting)]

\* The four steps of process_engine_updates, one per flag.
ProcessMeshes(st, updates) ==
    IF updates.meshes
    THEN DoSetupEntities(DoSetupVerticesIndices(st))
    ELSE st

ProcessEntities(st, updates) ==
    IF updates.entities THEN DoSetupEntities(st) ELSE st

ProcessCamera(st, updates) ==
    IF updates.camera THEN UpdateCamera(st) ELSE st

ProcessLighting(st, updates) ==
    IF updates.lighting THEN UpdateLighting(st) ELSE st

\* process_engine_updates(engine_updates, g_state, device, queue)
ProcessEngineUpdates(st, updates) ==
    IF st.panicked THEN st
    ELSE ProcessLighting(
            ProcessCamera(
                ProcessEntities(ProcessMeshes(st, updates), updates),
                updates),
            updates)

\* The instance buffer and the draw-range table of a mesh pass.
PassInstanceBuf(st, pass) ==
    IF pass = "opaque" THEN st.instance_buf ELSE st.instance_buf_transparent

PassMappings(st, pass) ==
    IF pass = "opaque" THEN st.mesh_mappings ELSE st.mesh_mappings_transparent

\* The inner loop without the test of the instance count.
RECURSIVE MeshDraws_NoSkip(_, _, _, _, _)
MeshDraws_NoSkip(st, pass, mappings, i, start_ind) ==
    IF i >= Len(st.meshes) THEN st
    ELSE IF i >= Len(mappings) THEN [st EXCEPT !.panicked = TRUE]
    ELSE
    LET mesh == st.meshes[i + 1]
        vertex_start_this_mesh == mappings[i + 1][1]
        instance_start_this_mesh == mappings[i + 1][2]
        instance_count_this_mesh == mappings[i + 1][3]
    IN  MeshDraws_NoSkip(
            Log(st, DrawIndexed(pass, i, start_ind, start_ind + mesh.indices,
                    vertex_start_this_mesh, instance_start_this_mesh,
                    instance_start_this_mesh + instance_count_this_mesh)),
            pass, mappings, i + 1, start_ind + mesh.indices)

\* The inner loop in which a skipped mesh does not advance start_ind.
RECURSIVE MeshDraws_SkipKeepsStart(_, _, _, _, _)
MeshDraws_SkipKeepsStart(st, pass, mappings, i, start_ind) ==
    IF i >= Len(st.meshes) THEN st
    ELSE IF i >= Len(mappings) THEN [st EXCEPT !.panicked = TRUE]
    ELSE
    LET mesh == st.meshes[i + 1]
        vertex_start_this_mesh == mappings[i + 1][1]
        instance_start_this_mesh == mappings[i + 1][2]
        instance_count_this_mesh == mappings[i + 1][3]
    IN  IF instance_count_this_mesh = 0
        THEN MeshDraws_SkipKeepsStart(st, pass, mappings, i + 1, start_ind)
        ELSE MeshDraws_SkipKeepsStart(
                Log(st, DrawIndexed(pass, i, start_ind, start_ind + mesh.indices,
                        vertex_start_this_mesh, instance_start_this_mesh,
                        instance_start_this_mesh + instance_count_this_mesh)),
                pass, mappings, i + 1, start_ind + mesh.indices)

\* The inner loop of a bucket pass: one draw_indexed per mesh with instances.
RECURSIVE MeshDraws(_, _, _, _, _)
MeshDraws(st, pass, mappings, i, start_ind) ==
    IF i >= Len(st.meshes) THEN st
    ELSE IF i >= Len(mappings) THEN [st EXCEPT !.panicked = TRUE]
    ELSE
    LET mesh == st.meshes[i + 1]
        vertex_start_this_mesh == mappings[i + 1][1]
        instance_start_this_mesh == mappings[i + 1][2]
        instance_count_this_mesh == mappings[i + 1][3]
    IN  IF instance_count_this_mesh = 0
        THEN MeshDraws(st, pass, mappings, i + 1, start_ind + mesh.indices)
        ELSE MeshDraws(
                Log(st, DrawIndexed(pass, i, start_ind, start_ind + mesh.indices,
                        vertex_start_this_mesh, instance_start_this_mesh,
                        instance_start_this_mesh + instance_count_this_mesh)),
                pass, mappings, i + 1, start_ind + mesh.indices)

\* One iteration of the loop over (inst_buf, pipeline, mappings).
BucketPass(st, pass) ==
    IF st.panicked \/ Len(PassInstanceBuf(st, pass)) = 0 THEN st
    ELSE MeshDraws(Log(st, [Event("set_pipeline") EXCEPT !.pass = pass]),
                   pass, PassMappings(st, pass), 0, 0)

\* The gaussian draw at the end of setup_render_pass.
GaussPass(st) ==
    IF st.panicked \/ st.gaussians = << >> THEN st
    ELSE Log(Log(st, [Event("set_pipeline") EXCEPT !.pass = "gauss"]),
             DrawGauss(Len(st.gaussians)))

\* setup_render_pass with the two transparent pipelines in the other order.
SetupRenderPass_FrontBeforeBack(st) ==
    GaussPass(
        BucketPass(
            BucketPass(
                BucketPass(Log(st, Event("begin_render_pass")), "opaque"),
                "transparent_front"),
            "transparent_back"))

\* GraphicsState::setup_render_pass
SetupRenderPass(st) ==
    GaussPass(
        BucketPass(
            BucketPass(
                BucketPass(Log(st, Event("begin_render_pass")), "opaque"),
                "transparent_back"),
            "transparent_front"))

\* What a handler may do to the scene: nothing, change an opacity, push an
\* entity, or replace the mesh table.
SceneEdits(st) ==
    {[meshes |-> st.meshes, entities |-> st.entities, edited |-> 0]}
    \cup
    (IF st.edits < MaxEdits /\ Len(st.entities) <= MaxEntities
     THEN {[meshes |-> st.meshes,
            entities |-> [st.entities EXCEPT ![k].opacity = o], edited |-> 1] :
                k \in DOMAIN st.entities, o \in Opacities}
          \cup {[meshes |-> st.meshes, entities |-> Append(st.entities, e),
                 edited |-> 1] :
                    e \in IF Len(st.entities) < MaxEntities THEN NewEntities ELSE {}}
          \cup {[meshes |-> ms, entities |-> st.entities, edited |-> 1] :
                    ms \in MeshTables \ {st.meshes}}
     ELSE {})

\* The flags a handler returns with an edit: a handler that changes the mesh
\* table sets the meshes flag; the entities flag is the handler's choice.
HandlerUpdates(st, edit) ==
    {EngineUpdates(m, e, FALSE, FALSE) :
        m \in IF edit.meshes # st.meshes THEN {TRUE} ELSE {FALSE},
        e \in BOOLEAN}

\* A handler call: the scene as the handler leaves it, and the event.
Handled(st, name, edit, updates) ==
    IF st.panicked THEN st
    ELSE [Log(st, Timed(HandlerEvent(name, updates), st.dt)) EXCEPT
            !.meshes = edit.meshes, !.entities = edit.entities,
            !.edits = @ + edit.edited]

\* adjust_camera_free / adjust_camera_arc: a held movement key moves the
\* camera; the result says whether the camera changed.
AdjustedCamera(cam, inputs) ==
    IF inputs.fwd THEN (IF cam = 1 THEN 2 ELSE 1) ELSE cam

\* The start of render: the in-engine control scheme applies the commanded
\* inputs to the camera, then the mouse movement is reset.
AdjustCamera(st) ==
    IF st.panicked \/ ~InputsPresent(st.inputs_commanded) THEN st
    ELSE CASE st.control_scheme \in {"FreeCamera", "Arc"} ->
                [(IF AdjustedCamera(st.camera, st.inputs_commanded) # st.camera
                  THEN UpdateCamera(
                         [st EXCEPT !.camera =
                             AdjustedCamera(st.camera, st.inputs_commanded)])
                  ELSE st)
                 EXCEPT !.inputs_commanded.mouse_delta = FALSE]
           [] st.control_scheme = "None" ->
                [st EXCEPT !.inputs_commanded.mouse_delta = FALSE]
           [] OTHER -> [st EXCEPT !.panicked = TRUE]

\* The end of render: the GUI's draws, the end of the pass, submit, present.
FinishFrame(st) ==
    IF st.panicked THEN st
    ELSE Log(Log(Log(Log(st, Event("egui_render")), Event("end_render_pass")),
                 Event("submit")), Event("present"))

\* render that processes the GUI handler's updates after the render pass.
Render_ProcessAfterPass(st, edit, updates) ==
    FinishFrame(
        ProcessEngineUpdates(
            SetupRenderPass(
                Handled(Log(AdjustCamera(Log(st, Timed(Event("render"), st.dt))),
                            Event("create_command_encoder")),
                        "gui_handler", edit, updates)),
            updates))

\* GraphicsState::render once the surface texture is acquired: the camera
\* adjustment, the GUI handler, its updates, the render pass, then submit
\* and present.
Render(st, edit, updates) ==
    FinishFrame(
        SetupRenderPass(
            ProcessEngineUpdates(
                Handled(Log(AdjustCamera(Log(st, Timed(Event("render"), st.dt))),
                            Event("create_command_encoder")),
                        "gui_handler", edit, updates),
                updates)))

\* The engine state st becomes the state of the program after operation op.
CommitAs(st, op) ==
    /\ meshes' = st.meshes
    /\ entities' = st.entities
    /\ gaussians' = st.gaussians
    /\ instance_buf' = st.instance_buf
    /\ instance_buf_transparent' = st.instance_buf_transparent
    /\ instance_buf_gauss' = st.instance_buf_gauss
    /\ mesh_mappings' = st.mesh_mappings
    /\ mesh_mappings_transparent' = st.mesh_mappings_transparent
    /\ panicked' = st.panicked
    /\ edits' = st.edits
    /\ frame' = st.frame
    /\ vertex_buf' = st.vertex_buf
    /\ index_buf' = st.index_buf
    /\ camera' = st.camera
    /\ camera_buf' = st.camera_buf
    /\ cam_basis_buf' = st.cam_basis_buf
    /\ lighting' = st.lighting
    /\ lighting_buf' = st.lighting_buf
    /\ control_scheme' = st.control_scheme
    /\ mouse_in_gui' = st.mouse_in_gui
    /\ inputs_commanded' = st.inputs_commanded
    /\ dt' = st.dt
    /\ last_op' = OpRecord(op, EU_None, FALSE, NoPatch)
    /\ UNCHANGED <<stable, entity_update, pushed>>

Commit(st) == CommitAs(st, "redraw")

\* The first half of redraw: the render handler, then its updates.
RenderHandled(st, edit, updates) ==
    ProcessEngineUpdates(Handled(st, "render_handler", edit, updates), updates)

\* The second half of redraw when get_current_texture fails, with unwrap.
SurfaceArm_Unwrap(st, acquired) ==
    IF ~acquired
    THEN Commit([Log(st, Event("get_current_texture_err"))
                    EXCEPT !.panicked = TRUE])
    ELSE \E edit_gui \in SceneEdits(st) :
         \E updates_gui \in HandlerUpdates(st, edit_gui) :
             Commit(Render(Log(st, Event("get_current_texture_ok")),
                           edit_gui, updates_gui))

\* The second half of redraw: match sys.surface.get_current_texture().
SurfaceArm(st, acquired) ==
    IF ~acquired
    THEN Commit(Log(st, Event("get_current_texture_err")))
    ELSE \E edit_gui \in SceneEdits(st) :
         \E updates_gui \in HandlerUpdates(st, edit_gui) :
             Commit(Render(Log(st, Event("get_current_texture_ok")),
                           edit_gui, updates_gui))

\* A frame time in milliseconds, and the elapsed times since the previous
\* render that a redraw may find.
FrameTime == 16

ElapsedTimes == {16, 1000, 1001, 1999, 2000, 5000}

\* The clamp of redraw: Duration::as_secs is the whole number of seconds.
ClampDt(elapsed) == IF elapsed \div 1000 > 1 THEN 1000 ELSE elapsed

\* State::redraw of a running (not paused) application, elapsed milliseconds
\* after the last one.
RedrawAt(elapsed) ==
    /\ panicked = FALSE
    /\ \E st \in {[EngineState EXCEPT !.dt = ClampDt(elapsed)]} :
       \E edit_render \in SceneEdits(st) :
       \E updates_render \in HandlerUpdates(st, edit_render) :
       \E acquired \in BOOLEAN :
           SurfaceArm(RenderHandled(st, edit_render, updates_render), acquired)

\* State::redraw at a steady frame rate.
Redraw == RedrawAt(FrameTime)

NextFrame == Redraw

SpecFrame == Init /\ [][NextFrame]_vars

----------------------------------------------------------------------------
(* Vocabulary of the frame properties *)

\* Positions of the events of the last frame with one of the given names.
EventsNamed(names) == {n \in DOMAIN frame : frame[n].ev \in names}

DrawEvents == EventsNamed({"draw_indexed", "draw"})

\* The last redraw recorded a render pass and ran to the end.
FrameDrawn == EventsNamed({"present"}) # {}

MeshPasses == {"opaque", "transparent_back", "transparent_front"}

\* The instance buffer and the draw-range table a mesh pass reads.
PassBuf(pass) ==
    IF pass = "opaque" THEN instance_buf ELSE instance_buf_transparent

PassMap(pass) ==
    IF pass = "opaque" THEN mesh_mappings ELSE mesh_mappings_transparent

\* The draw_indexed events of a pass for mesh i.
DrawsOf(pass, i) ==
    {n \in EventsNamed({"draw_indexed"}) :
        frame[n].pass = pass /\ frame[n].mesh = i}

----------------------------------------------------------------------------
(* C17 *)

\* C17: a frame issues no draw call whose instance count is 0; a bucket pass
\* whose instance buffer is empty issues no draw call; in a pass whose buffer
\* is not empty there is exactly one indexed draw call for each mesh whose
\* instance count in that bucket is not 0, and none for the other meshes.
C17_NoEmptyDraws ==
    FrameDrawn =>
        /\ \A n \in DrawEvents : frame[n].instances[2] > frame[n].instances[1]
        /\ \A pass \in MeshPasses :
             IF Len(PassBuf(pass)) = 0
             THEN \A n \in DrawEvents : frame[n].pass # pass
             ELSE \A i \in 0..(Len(meshes) - 1) :
                    Cardinality(DrawsOf(pass, i)) =
                        (IF PassMap(pass)[i + 1][3] # 0 THEN 1 ELSE 0)

\* A frame was drawn with an empty opaque bucket and a transparent bucket in
\* which one mesh has instances and another has none.
C17_Witness ==
    /\ FrameDrawn
    /\ Len(instance_buf) = 0
    /\ Len(instance_buf_transparent) > 0
    /\ \E i, j \in 0..(Len(meshes) - 1) :
         /\ mesh_mappings_transparent[i + 1][3] = 0
         /\ mesh_mappings_transparent[j + 1][3] # 0
         /\ DrawsOf("transparent_back", j) # {}

----------------------------------------------------------------------------
(* C18 *)

PassRank(pass) ==
    CASE pass = "opaque" -> 1
      [] pass = "transparent_back" -> 2
      [] pass = "transparent_front" -> 3
      [] pass = "gauss" -> 4

\* C18: in the render pass of every frame the draw calls come in the bucket
\* order opaque, transparent back-face, transparent front-face, gaussian: no
\* draw of an earlier pass follows a draw of a later pass, and the gaussian
\* draw is one call after all the others.
C18_PassOrder ==
    /\ \A n, m \in DrawEvents :
         n < m => PassRank(frame[n].pass) <= PassRank(frame[m].pass)
    /\ \A n, m \in DrawEvents :
         (frame[n].pass = "gauss" /\ frame[m].pass = "gauss") => n = m

\* A frame drew in all four passes.
C18_Witness ==
    /\ FrameDrawn
    /\ \A pass \in MeshPasses \cup {"gauss"} :
         \E n \in DrawEvents : frame[n].pass = pass

----------------------------------------------------------------------------
(* C19 *)

\* n is the position of an event of the frame, or 0 / Len + 1 if none.
First(ns) == IF ns = {} THEN Len(frame) + 1
             ELSE CHOOSE n \in ns : \A m \in ns : n <= m

Last(ns) == IF ns = {} THEN 0
            ELSE CHOOSE n \in ns : \A m \in ns : m <= n

HandlerEvents == EventsNamed({"render_handler", "gui_handler"})

ProcessingEvents ==
    EventsNamed({"setup_vertices_indices", "setup_entities", "update_camera",
                 "update_lighting"})

\* C19: a frame runs mutate -> rebuild -> draw -> submit. Both handlers run,
\* and the updates each returns are processed (setup_entities has run for a
\* returned entities or meshes flag), before the first draw call is recorded;
\* the buffers drawn are then those of a rebuild of the scene as the GUI
\* handler left it when it returned the entities flag; submit and present
\* come after the last draw call, in that order.
C19_FrameSequence ==
    FrameDrawn =>
        LET first_draw == First(EventsNamed({"begin_render_pass"}) \cup DrawEvents)
            last_draw == Last(DrawEvents \cup EventsNamed({"begin_render_pass"}))
            submit == First(EventsNamed({"submit"}))
            present == First(EventsNamed({"present"}))
        IN  /\ frame[1].ev = "render_handler"
            /\ Cardinality(EventsNamed({"render_handler"})) = 1
            /\ Cardinality(EventsNamed({"gui_handler"})) = 1
            /\ \A h \in HandlerEvents : h < first_draw
            /\ \A q \in ProcessingEvents : q < first_draw
            /\ \A h \in HandlerEvents :
                 (frame[h].updates.entities \/ frame[h].updates.meshes) =>
                    \E q \in EventsNamed({"setup_entities"}) :
                        /\ h < q
                        /\ \A g \in HandlerEvents : g > h => q < g
            /\ frame[First(EventsNamed({"gui_handler"}))].updates.entities =>
                 LET fresh == SetupEntities(meshes, entities, gaussians) IN
                 /\ instance_buf = fresh.instance_buf
                 /\ instance_buf_transparent = fresh.instance_buf_transparent
                 /\ mesh_mappings = fresh.mesh_mappings
                 /\ mesh_mappings_transparent = fresh.mesh_mappings_transparent
            /\ last_draw < submit
            /\ submit < present
            /\ Cardinality(EventsNamed({"submit"})) = 1
            /\ Cardinality(EventsNamed({"present"})) = 1

\* A frame in which both handlers edited the scene and returned the entities
\* flag, and which drew.
C19_Witness ==
    /\ FrameDrawn
    /\ edits >= 2
    /\ \A h \in HandlerEvents : frame[h].updates.entities
    /\ Cardinality(EventsNamed({"setup_entities"})) >= 2
    /\ DrawEvents # {}

----------------------------------------------------------------------------
(* C20 *)

\* The frame f is one in which get_current_texture failed.
SurfaceFailed(f) == \E n \in DOMAIN f : f[n].ev = "get_current_texture_err"

\* C20: when get_current_texture fails, the frame records no render pass and
\* no draw call, submits and presents nothing and does not panic; the engine
\* state is the one the processing of the render handler's updates left
\* (rebuilt if it returned the entities or meshes flag, the buffers and
\* tables untouched otherwise); the redraw that follows attempts the
\* acquisition again.
C20_SurfaceFailure ==
    [][/\ SurfaceFailed(frame') =>
             /\ \A n \in DOMAIN frame' :
                  frame'[n].ev \notin
                      {"create_command_encoder", "gui_handler",
                       "begin_render_pass", "set_pipeline", "draw_indexed",
                       "draw", "egui_render", "submit", "present"}
             /\ ~panicked'
             /\ IF frame'[1].updates.entities \/ frame'[1].updates.meshes
                THEN IsRebuildOf(meshes', entities', gaussians')
                ELSE /\ UNCHANGED Buffers
                     /\ \A k \in DOMAIN entities \cap DOMAIN entities' :
                          /\ entities'[k].buf_i = entities[k].buf_i
                          /\ entities'[k].buf_is_transparent =
                                entities[k].buf_is_transparent
       /\ SurfaceFailed(frame) =>
             \E n \in DOMAIN frame' :
                 frame'[n].ev \in {"get_current_texture_ok",
                                   "get_current_texture_err"}]_vars

\* The surface was unavailable in a frame whose render handler edited the
\* scene and asked for a rebuild.
C20_Witness ==
    /\ SurfaceFailed(frame)
    /\ ~panicked
    /\ edits >= 1
    /\ frame[1].updates.entities
    /\ EventsNamed({"setup_entities"}) # {}

----------------------------------------------------------------------------
(* process_engine_updates after changes of the scene *)

\* The most point lights the application puts in scene.lighting.
MaxLights == 2

\* An application callback that changes the camera or the lighting.
MutateOutside ==
    /\ panicked = FALSE
    /\ edits < MaxEdits
    /\ edits' = edits + 1
    /\ last_op' = OpRecord("mutate", EU_None, FALSE, NoPatch)
    /\ UNCHANGED <<meshes, entities, gaussians, Buffers, panicked, stable,
                   frame, vertex_buf, index_buf, camera_buf, cam_basis_buf,
                   lighting_buf, control_scheme, mouse_in_gui,
                   inputs_commanded, dt, entity_update, pushed>>

MoveCamera ==
    /\ \E c \in Cameras : c # camera /\ camera' = c
    /\ MutateOutside
    /\ UNCHANGED lighting

AddPointLight ==
    /\ Len(lighting.point_lights) < MaxLights
    /\ lighting' = Lighting(Append(lighting.point_lights,
                                   Len(lighting.point_lights)))
    /\ MutateOutside
    /\ UNCHANGED camera

RemovePointLight ==
    /\ lighting.point_lights # << >>
    /\ lighting' = Lighting(SubSeq(lighting.point_lights, 1,
                                   Len(lighting.point_lights) - 1))
    /\ MutateOutside
    /\ UNCHANGED camera

\* Every combination of the four flags.
AllUpdates ==
    {EngineUpdates(m, e, c, l) : m \in BOOLEAN, e \in BOOLEAN,
                                 c \in BOOLEAN, l \in BOOLEAN}

\* A call of process_engine_updates; the flags are the first event.
ProcessEngineUpdatesCall ==
    /\ panicked = FALSE
    /\ \E updates \in AllUpdates :
         CommitAs(ProcessEngineUpdates(
                      Log(EngineState,
                          HandlerEvent("process_engine_updates", updates)),
                      updates),
                  "process_engine_updates")

NextEngine ==
    \/ AddEntity
    \/ SetOpacity
    \/ SetMeshes
    \/ MoveCamera
    \/ AddPointLight
    \/ RemovePointLight
    \/ ProcessEngineUpdatesCall

SpecEngine == Init /\ [][NextEngine]_vars

----------------------------------------------------------------------------
(* C21 *)

\* The step is a call of process_engine_updates.
EngineUpdatesStep == last_op'.op = "process_engine_updates"

\* The flags of the call.
StepUpdates == frame'[1].updates

\* Event a comes before event b in the log f.
EventBefore(f, a, b) ==
    \E m, n \in DOMAIN f : m < n /\ f[m].ev = a /\ f[n].ev = b

\* What a call does for the flags that are set.
SetFlagsAct ==
    /\ StepUpdates.meshes =>
         /\ vertex_buf' = VertexData(meshes, 0)
         /\ index_buf' = IndexData(meshes, 0)
         /\ EventBefore(frame', "setup_vertices_indices", "setup_entities")
    /\ (StepUpdates.meshes \/ StepUpdates.entities) =>
         IsRebuildOf(meshes, entities, gaussians)
    /\ StepUpdates.camera => camera_buf' = CameraToBytes(camera)
    /\ StepUpdates.lighting =>
         /\ lighting_buf'.data.len = Len(lighting.point_lights)
         /\ SubSeq(lighting_buf'.data.lights, 1, Len(lighting.point_lights))
               = lighting.point_lights

\* What a call leaves alone for the flags that are not set.
ClearFlagsKeep ==
    /\ ~StepUpdates.meshes => UNCHANGED <<vertex_buf, index_buf>>
    /\ ~(StepUpdates.meshes \/ StepUpdates.entities) =>
         UNCHANGED <<entities, Buffers>>
    /\ ~StepUpdates.camera => UNCHANGED <<camera_buf, cam_basis_buf>>
    /\ ~StepUpdates.lighting => UNCHANGED lighting_buf

\* C21: process_engine_updates acts per dirty flag: meshes rebuilds the
\* vertex and index buffers and then the instance buffers, entities rebuilds
\* the instance buffers, camera rewrites the camera buffer, lighting rewrites
\* the lighting buffer, and what belongs to a flag that is not set is left
\* unchanged; the scene itself is not changed and the call returns normally.
C21_PerFlag ==
    [][EngineUpdatesStep =>
          /\ ~panicked'
          /\ SetFlagsAct
          /\ ClearFlagsKeep
          /\ UNCHANGED <<meshes, gaussians, camera, lighting>>]_vars

\* The same for the calls whose lighting blob fits the lighting buffer.
C21_PerFlagWhenBlobFits ==
    [][(EngineUpdatesStep
          /\ (StepUpdates.lighting =>
                LightingByteLen(lighting) <= lighting_buf.size)) =>
          /\ ~panicked'
          /\ SetFlagsAct
          /\ ClearFlagsKeep
          /\ UNCHANGED <<meshes, gaussians, camera, lighting>>]_vars

\* A call with the meshes and camera flags only, after the mesh table and
\* the camera changed: both buffers changed, the lighting buffer did not.
C21_Witness ==
    /\ last_op.op = "process_engine_updates"
    /\ frame[1].updates = EngineUpdates(TRUE, FALSE, TRUE, FALSE)
    /\ index_buf = IndexData(meshes, 0)
    /\ camera_buf = CameraToBytes(camera)
    /\ camera # 1
    /\ edits = 2

----------------------------------------------------------------------------
(* Gaussians that change at run time *)

\* The gaussian lists of the application.
GaussianLists == {<< >>, <<7>>, <<7, 8>>, <<8, 7>>}

\* An application callback replaces scene.gaussians.
SetGaussians ==
    /\ \E gs \in GaussianLists : gs # gaussians /\ gaussians' = gs
    /\ Mutate(FALSE)
    /\ UNCHANGED <<meshes, entities>>

NextGauss ==
    \/ SetGaussians
    \/ SetOpacity
    \/ SetColor
    \/ FullRebuild
    \/ ReplaceInstanceEntries

SpecGauss == Init /\ [][NextGauss]_vars

----------------------------------------------------------------------------
(* C22 *)

\* C22: a call of replace_instance_entries that does not fall back to a full
\* rebuild leaves the gaussian instance buffer as it was, whatever the
\* request; a step that changes the gaussian instance buffer is a full
\* rebuild, which packs the current gaussians.
C22_GaussRebuildOnly ==
    [][/\ (PatchCall /\ ~last_op'.rebuilt) =>
             instance_buf_gauss' = instance_buf_gauss
       /\ instance_buf_gauss' # instance_buf_gauss =>
             /\ last_op'.rebuilt
             /\ instance_buf_gauss' = SetupInstanceBufGauss(gaussians)]_vars

\* An in-place patch wrote entity records while the gaussian list had changed
\* since the last rebuild: the gaussian buffer still holds the old list.
C22_Witness ==
    /\ last_op.op = "replace_instance_entries"
    /\ ~last_op.rebuilt
    /\ ~panicked
    /\ last_op.writes # << >>
    /\ gaussians # << >>
    /\ instance_buf_gauss # SetupInstanceBufGauss(gaussians)

----------------------------------------------------------------------------
(* C23 *)

\* Frames of an application that also replaces its gaussian list.
NextGaussFrame ==
    \/ SetGaussians
    \/ Redraw

SpecGaussFrame == Init /\ [][NextGaussFrame]_vars

\* The last step was a frame.
AfterFrame == last_op.op = "redraw"

\* The last step was a frame that ran setup_entities.
FrameRebuilt == AfterFrame /\ EventsNamed({"setup_entities"}) # {}

\* The draws of the gaussian pipeline in the frame.
GaussDraws == {n \in DOMAIN frame : frame[n].pass = "gauss" /\ frame[n].ev = "draw"}

\* C23: a full rebuild packs the gaussians into one flat array with exactly
\* one record per gaussian, in the order of the scene's list, whatever the
\* meshes and entities are; a drawn frame issues exactly one gaussian draw of
\* 6 vertices and one instance per gaussian when the list is not empty, and
\* no gaussian draw when it is empty.
C23_GaussiansFlat ==
    /\ (last_op.rebuilt \/ FrameRebuilt) =>
          /\ Len(instance_buf_gauss) = Len(gaussians)
          /\ \A k \in DOMAIN gaussians :
                instance_buf_gauss[k] = GaussToBytes(gaussians[k])
    /\ (AfterFrame /\ FrameDrawn) =>
          /\ Cardinality(GaussDraws) = (IF gaussians # << >> THEN 1 ELSE 0)
          /\ \A n \in GaussDraws :
                /\ frame[n].indices = <<0, 6>>
                /\ frame[n].instances = <<0, Len(gaussians)>>

\* A frame rebuilt after the gaussian list was replaced by two gaussians, in
\* a scene with entities of both buckets, and drew them with one draw.
C23_Witness ==
    /\ FrameDrawn /\ FrameRebuilt
    /\ edits > 0
    /\ Len(gaussians) = 2
    /\ instance_buf # << >> /\ instance_buf_transparent # << >>
    /\ Cardinality(GaussDraws) = 1

----------------------------------------------------------------------------
(* State::device_event and the cursor part of State::window_event *)

\* Device events: a movement key pressed or released, a mouse movement, and
\* an event add_input_cmd ignores.
DeviceEvents == {"KeyW_Pressed", "KeyW_Released", "MouseMotion", "Added"}

\* input::add_input_cmd
AddInputCmd(inputs, event) ==
    CASE event = "KeyW_Pressed" -> [inputs EXCEPT !.fwd = TRUE]
      [] event = "KeyW_Released" -> [inputs EXCEPT !.fwd = FALSE]
      [] event = "MouseMotion" -> [inputs EXCEPT !.mouse_delta = TRUE]
      [] OTHER -> inputs

\* GraphicsState::handle_input: the schemes without engine controls reach
\* unimplemented!().
HandleInput(st, event) ==
    IF st.control_scheme \in {"FreeCamera", "Arc"}
    THEN [Log(st, Event("handle_input")) EXCEPT
            !.inputs_commanded = AddInputCmd(@, event)]
    ELSE [Log(st, Event("handle_input")) EXCEPT !.panicked = TRUE]

\* State::device_event
DeviceEvent ==
    /\ panicked = FALSE
    /\ \E event \in DeviceEvents :
         IF mouse_in_gui
         THEN CommitAs(Log(EngineState, Event("device_event")), "device_event")
         ELSE \E st \in {HandleInput(Log(EngineState, Event("device_event")),
                                     event)} :
              \E edit \in SceneEdits(st) :
              \E updates \in HandlerUpdates(st, edit) :
                  CommitAs(ProcessEngineUpdates(
                               Handled(st, "event_dev_handler", edit, updates),
                               updates),
                           "device_event")

\* The CursorMoved arm of window_event, after the window-event handler and
\* its updates: the cursor is over the GUI or not; over the GUI the
\* commanded inputs are reset.
CursorMoved(st, in_gui) ==
    [Log(st, Event("cursor_moved")) EXCEPT
        !.mouse_in_gui = in_gui,
        !.inputs_commanded = IF in_gui THEN NoInputs ELSE @]

\* State::window_event for WindowEvent::CursorMoved
WindowEventCursorMoved ==
    /\ panicked = FALSE
    /\ \E in_gui \in BOOLEAN :
         IF mouse_in_gui
         THEN CommitAs(CursorMoved(Log(EngineState, Event("window_event")),
                                   in_gui),
                       "window_event")
         ELSE \E st \in {Log(EngineState, Event("window_event"))} :
              \E edit \in SceneEdits(st) :
              \E updates \in HandlerUpdates(st, edit) :
                  CommitAs(CursorMoved(
                               ProcessEngineUpdates(
                                   Handled(st, "event_win_handler", edit, updates),
                                   updates),
                               in_gui),
                           "window_event")

\* The scene of the input specification.
InputScenes ==
    {[meshes |-> <<MeshA, MeshB>>, entities |-> <<Ent(0, 1, 99, 0)>>,
      gaussians |-> <<7>>]}

\* The application chooses the control scheme in its scene.
InitInput ==
    \E scene \in InputScenes, scheme \in ControlSchemes :
        InitWith(scene, 1, DefaultLighting, scheme, EU_None)

NextInput ==
    \/ DeviceEvent
    \/ WindowEventCursorMoved
    \/ Redraw

SpecInput == InitInput /\ [][NextInput]_vars

----------------------------------------------------------------------------
(* C24 *)

\* The step is a device event received while the mouse is outside the GUI.
DeviceEventStep == last_op'.op = "device_event" /\ ~mouse_in_gui

\* C24: with ControlScheme::None, a device event received while the mouse is
\* outside the GUI reaches the application's device-event handler, the engine
\* does not fail, and the engine leaves the camera, its buffer and the
\* commanded inputs as they were.
C24_NoControls ==
    [][(DeviceEventStep /\ control_scheme = "None") =>
          /\ ~panicked'
          /\ \E n \in DOMAIN frame' : frame'[n].ev = "event_dev_handler"
          /\ UNCHANGED <<camera, camera_buf, cam_basis_buf, inputs_commanded>>]_vars

\* With the engine's own controls the event does reach the handler.
C24_HandlerReachedWithControls ==
    [][(DeviceEventStep /\ control_scheme \in {"FreeCamera", "Arc"}) =>
          /\ ~panicked'
          /\ \E n \in DOMAIN frame' : frame'[n].ev = "event_dev_handler"
          /\ UNCHANGED <<camera, camera_buf, cam_basis_buf>>]_vars

----------------------------------------------------------------------------
(* C25 *)

\* The number of indices of the first n meshes of ms.
RECURSIVE SumIndices(_, _)
SumIndices(ms, n) ==
    IF n = 0 THEN 0 ELSE ms[n].indices + SumIndices(ms, n - 1)

\* The index buffer holds the indices of mesh i, in order, from position s.
IndicesPlacedAt(i, s) ==
    /\ s + meshes[i + 1].indices <= Len(index_buf)
    /\ \A k \in 1..meshes[i + 1].indices : index_buf[s + k] = <<i, k - 1>>

\* C25: every indexed draw of a frame, for mesh i in any bucket pass, covers
\* the index range [S, S + |indices of mesh i|) where S is the number of
\* indices of the meshes before i (drawn or skipped), which is where
\* setup_vertices_indices placed the indices of mesh i in the index buffer;
\* its base vertex is the vertex offset of the pass's draw-range table and
\* its instance range is [instance_start, instance_start + instance_count)
\* of that table.
C25_DrawRanges ==
    (AfterFrame /\ FrameDrawn) =>
        \A n \in EventsNamed({"draw_indexed"}) :
            LET i == frame[n].mesh
                range == PassMap(frame[n].pass)[i + 1]
                S == SumIndices(meshes, i)
            IN  /\ i < Len(meshes)
                /\ frame[n].indices = <<S, S + meshes[i + 1].indices>>
                /\ IndicesPlacedAt(i, S)
                /\ frame[n].base_vertex = range[1]
                /\ frame[n].instances = <<range[2], range[2] + range[3]>>

\* A frame drew mesh 1 although mesh 0 has no instances in that pass, after
\* the mesh table was replaced.
C25_Witness ==
    /\ AfterFrame /\ FrameDrawn
    /\ EventsNamed({"setup_vertices_indices"}) # {}
    /\ \E pass \in MeshPasses :
          /\ DrawsOf(pass, 1) # {}
          /\ DrawsOf(pass, 0) = {}
          /\ Len(PassBuf(pass)) > 0

----------------------------------------------------------------------------
(* C26 *)

\* State::redraw after any of the elapsed times.
RedrawTimed == \E elapsed \in ElapsedTimes : RedrawAt(elapsed)

InitDt ==
    \E scene \in InputScenes :
        InitWith(scene, 1, DefaultLighting, "FreeCamera", EU_None)

NextDt == RedrawTimed

SpecDt == InitDt /\ [][NextDt]_vars

\* The frame times handed to the render handler and to render in the frame.
PassedDts ==
    {frame[n].dt : n \in EventsNamed({"render_handler", "render"})}

\* C26: whatever time has elapsed since the previous render, the dt that
\* redraw stores and passes to the render handler and to render is at most
\* 1 second (1000 ms).
C26_DtClamped ==
    /\ dt <= 1000
    /\ \A t \in PassedDts : t <= 1000

\* What the clamp does guarantee: less than 2 seconds.
C26_DtBelowTwoSeconds ==
    /\ dt < 2000
    /\ \A t \in PassedDts : t < 2000

----------------------------------------------------------------------------
(* EntityUpdate::push_class and EntityUpdate::push_id *)

\* The most pushes into one request, and the classes and ids pushed.
MaxPushes == 3

PushedClasses == {0, 1}

PushedIds == {0, 1}

\* EntityUpdate::push_class
PushClassOn(self, class) ==
    CASE self.kind = "None" -> EU_Classes(<<class>>)
      [] self.kind = "All" -> self
      [] self.kind = "Classes" -> EU_Classes(Append(self.v, class))
      [] self.kind = "Ids" -> EU_Classes(<<class>>)
      [] self.kind = "Indexes" -> EU_Classes(<<class>>)

\* EntityUpdate::push_id
PushIdOn(self, id) ==
    CASE self.kind = "None" -> EU_Ids(<<id>>)
      [] self.kind = "All" -> self
      [] self.kind = "Classes" -> EU_Ids(<<id>>)
      [] self.kind = "Ids" -> EU_Ids(Append(self.v, id))
      [] self.kind = "Indexes" -> EU_Ids(<<id>>)

\* What a push leaves alone: the engine.
Engine == <<meshes, entities, gaussians, Buffers, panicked, edits, stable,
            frame, vertex_buf, index_buf, camera, camera_buf, cam_basis_buf,
            lighting, lighting_buf, control_scheme, mouse_in_gui,
            inputs_commanded, dt>>

PushClass ==
    /\ pushed.n < MaxPushes
    /\ \E class \in PushedClasses :
         /\ entity_update' = PushClassOn(entity_update, class)
         /\ pushed' = [pushed EXCEPT !.classes = @ \cup {class}, !.n = @ + 1]
         /\ last_op' = OpRecord("push_class", entity_update, FALSE, NoPatch)
    /\ UNCHANGED Engine

PushId ==
    /\ pushed.n < MaxPushes
    /\ \E id \in PushedIds :
         /\ entity_update' = PushIdOn(entity_update, id)
         /\ pushed' = [pushed EXCEPT !.ids = @ \cup {id}, !.n = @ + 1]
         /\ last_op' = OpRecord("push_id", entity_update, FALSE, NoPatch)
    /\ UNCHANGED Engine

\* The values a request starts from.
StartRequests ==
    {EU_None, EU_All, EU_Classes(<<0>>), EU_Ids(<<1>>), EU_Indexes(0, 1)}

InitPush ==
    \E scene \in InputScenes, request \in StartRequests :
        InitWith(scene, 1, DefaultLighting, "FreeCamera", request)

NextPush ==
    \/ PushClass
    \/ PushId

SpecPush == InitPush /\ [][NextPush]_vars

----------------------------------------------------------------------------
(* C27 *)

\* The request covers class c / id i.
CoversClass(request, c) ==
    request.kind = "All" \/ (request.kind = "Classes" /\ c \in Range(request.v))

CoversId(request, i) ==
    request.kind = "All" \/ (request.kind = "Ids" /\ i \in Range(request.v))

\* C27: after any sequence of push_class and push_id calls, from None or any
\* other value, every class and every id pushed so far is covered by the
\* request: it is All, or a Classes / Ids list that contains it.
C27_NothingLost ==
    /\ \A c \in pushed.classes : CoversClass(entity_update, c)
    /\ \A i \in pushed.ids : CoversId(entity_update, i)

\* The two special cases of the claim: All is absorbing, and one push into
\* None gives the singleton list.
C27_AllAbsorbingNoneSingleton ==
    [][/\ entity_update.kind = "All" => entity_update' = entity_update
       /\ (entity_update.kind = "None" /\ last_op'.op = "push_class") =>
             entity_update'.kind = "Classes" /\ Len(entity_update'.v) = 1
       /\ (entity_update.kind = "None" /\ last_op'.op = "push_id") =>
             entity_update'.kind = "Ids" /\ Len(entity_update'.v) = 1]_vars

\* The last push is always covered, and pushes of one kind only lose nothing.
C27_SameKindKept ==
    /\ pushed.ids = {} /\ entity_update.kind \in {"Classes", "All"} =>
          \A c \in pushed.classes : CoversClass(entity_update, c)
    /\ pushed.classes = {} /\ entity_update.kind \in {"Ids", "All"} =>
          \A i \in pushed.ids : CoversId(entity_update, i)

----------------------------------------------------------------------------
(* C28 *)

\* The n-th write of a call addresses the slot recorded by its entity and
\* lies inside the instance buffer of that entity's bucket.
WriteInsideBuffer(op, n) ==
    LET w == op.writes[n]
        ent == entities[w.index + 1]
    IN  /\ IsSome(ent.buf_i)
        /\ w.transparent = ent.buf_is_transparent
        /\ w.byte_offset = Unwrap(ent.buf_i) * INSTANCE_SIZE
        /\ w.byte_offset + INSTANCE_SIZE <= Len(BucketBuf(w.transparent)) * INSTANCE_SIZE

\* C28: after any sequence of application mutations of entities and of the
\* mesh table, full rebuilds and patch requests, every in-place write that
\* replace_instance_entries issues targets the bytes
\* [slot * INSTANCE_SIZE, (slot + 1) * INSTANCE_SIZE) of the entity's
\* recorded slot, and these lie inside the current instance buffer of the
\* entity's recorded bucket.
C28_WritesInBounds ==
    [][PatchCall =>
          \A n \in DOMAIN last_op'.writes : WriteInsideBuffer(last_op', n)]_vars

\* The same for the calls made while the registry order, the mesh references
\* and the mesh table are those of the last rebuild, and that rebuild placed
\* every entity.
C28_WritesInBoundsWhenAllPlaced ==
    [][(PatchCall /\ stable /\ \A k \in DOMAIN entities : HasMesh(entities[k])) =>
          \A n \in DOMAIN last_op'.writes : WriteInsideBuffer(last_op', n)]_vars

----------------------------------------------------------------------------
(* C29 *)

\* The step repeats the request of the previous step, which was a patch call
\* that fell back to a full rebuild.
RepeatAfterFallback ==
    /\ last_op.op = "replace_instance_entries"
    /\ last_op.rebuilt
    /\ PatchCall
    /\ last_op'.update = last_op.update

\* The call completed in place: one write per named entity, no rebuild.
CompletesInPlace ==
    /\ ~panicked'
    /\ ~last_op'.rebuilt
    /\ WritesExactly(last_op', Named(last_op'.update, entities))

\* C29: after a patch call has fallen back to a full rebuild, the same
\* request repeated with no mutation in between completes in place, with one
\* write per named entity and no further rebuild, for every registry.
C29_FallbackConverges ==
    [][RepeatAfterFallback => CompletesInPlace]_vars

\* The same for registries in which every entity's mesh index refers to a
\* mesh of the table.
C29_ConvergesWhenAllPlaced ==
    [][(RepeatAfterFallback /\ \A k \in DOMAIN entities : HasMesh(entities[k]))
          => CompletesInPlace]_vars

----------------------------------------------------------------------------
(* C30 *)

\* The step is a call of process_engine_updates with the lighting flag, so
\* update_lighting runs in it.
LightingUpdateStep == EngineUpdatesStep /\ StepUpdates.lighting

\* C30: whatever was done to the point-light list, the blob update_lighting
\* writes at offset 0 (fixed header plus one record per point light) is no
\* longer than the lighting buffer, and the write goes through.
C30_BlobFitsBuffer ==
    [][LightingUpdateStep =>
          /\ LightingByteLen(lighting) <= lighting_buf.size
          /\ ~panicked']_vars

\* The lighting buffer keeps the size it was created with: the size of the
\* blob of the initial lighting.
C30_BufferNeverReallocated ==
    /\ lighting_buf.size = LightingByteLen(DefaultLighting)
    /\ lighting_buf.size = LIGHTING_SIZE_FIXED + POINT_LIGHT_SIZE

\* With no more point lights than at initialisation the blob fits and the
\* buffer then starts with the records of the current lights.
C30_FitsUpToInitialLights ==
    [][(LightingUpdateStep
          /\ Len(lighting.point_lights) <= Len(DefaultLighting.point_lights)) =>
          /\ LightingByteLen(lighting) <= lighting_buf.size
          /\ ~panicked'
          /\ lighting_buf'.data.len = Len(lighting.point_lights)]_vars

====
